---- MODULE Spec2Model ----
(***************************************************************************)
(* Gamus ingestion pipeline: LibraryService::import_full driving the       *)
(* Scanner, Probe, Library (store) and ProgressReporter ports, and the     *)
(* SQLite-backed LibraryStore upserts; FsScanner::scan_library_files with  *)
(* its shared device cache; FfmpegProbe's extraction and the scoring of    *)
(* the spectral analysis.                                                  *)
(***************************************************************************)
EXTENDS Integers, Sequences, FiniteSets, TLC

\* ----------------------------------------------------------------- bounds
\* Largest number of files one scan lists, over all its groups.
MaxFiles == 3
\* Largest number of groups one scan returns.
MaxGroups == 2
\* Largest number of files of the single group of the wide scan (SpecWide).
MaxWide == 5
\* Number of Library calls made directly by commands (StoreSpec).
MaxSaves == 3
\* Number of binary digits of the rendering of an id at the storage boundary.
IdDigits == 3
\* Longest tag value, in characters, and longest list of aliases (TagSpec).
MaxTagLen == 2
MaxAliases == 2
\* Largest WalkConfig::max_depth (WalkSpec).
MaxDepth == 2

\* ------------------------------------------------------------ option type
None == <<>>
Some(x) == <<x>>
IsSome(o) == Len(o) = 1
Unwrap(o) == o[1]

\* -------------------------------------------------------------- id <-> text
\* Uuid rendered as text (Display of ArtistId/SongId/ReleaseId -> to_string):
\* the digits of the id, most significant first.
RECURSIVE Digits(_, _)
Digits(n, w) == IF w = 0 THEN <<>> ELSE Append(Digits(n \div 2, w - 1), n % 2)

IdToString(id) == Digits(id, IdDigits)

\* Uuid::parse_str on a stored id column.
RECURSIVE ParseDigits(_)
ParseDigits(s) ==
  IF Len(s) = 0 THEN 0
  ELSE 2 * ParseDigits(SubSeq(s, 1, Len(s) - 1)) + s[Len(s)]

ParseId(s) == ParseDigits(s)

\* ------------------------------------------------------------------ state
VARIABLES
  pc,           \* position of import_full: scan, start, group, consume, report, finish, returned
  scanRes,      \* what scan_library_files returned: "none" before it returns, "Ok", "Err"
  ret,          \* value import_full returned: "none" while running, "Ok", "Err"
  groups,       \* Vec<ScanGroup> the scan returned
  gi,           \* index of the group the for loop is at
  concurrency,  \* buffer_unordered depth of the current group
  st,           \* per file of the current group: where its future is
  cur,          \* the result stream.next() yielded, being reported
  events,       \* what the ProgressReporter has received, in order
  db,           \* LibraryStore tables, rows in insertion order
  clock,        \* database clock: statements executed so far
  calls,        \* save_* calls import_full has made through the Library port
  saves,        \* Library calls made directly by commands so far
  lastSave,     \* the last such call, whether it succeeded and whether it repeats the one before
  prevDb,       \* the tables as they were before the last such call
  latest,       \* per table and id, the entity of the last successful direct save
  device_cache, \* FsScanner::device_cache: device id -> MB/s, shared by every clone
  holder,       \* the call holding the guard of device_cache's mutex, if any
  poisoned,     \* whether a call panicked while it held the guard
  benchRuns,    \* per device id, how many times measure_device_throughput ran for it
  spc,          \* per scan_library_files call: where it is
  known_speeds, \* per call: its snapshot of device_cache
  cfg,          \* per call: the ScannerConfig it loaded (its number of roots)
  root,         \* per call: index of the root being walked
  seen,         \* per call: entries the walker has yielded so far
  entry,        \* per call: the entry the walker yielded last
  all_files,    \* per call: scan_music_with_cfg's all_files
  handles,      \* per call: one task per device bucket, in by_device's iteration order
  scanRet,      \* per call: what scan_library_files returned
  probe,        \* one extract_from_path call and what import_full does with its result
  scored,       \* the last scoring call: its arguments and its results
  capped,       \* the last bitrate cap or report call: its arguments and its results
  paths,        \* one GamusPaths::new call: its environment, the directories on disk, its result
  again,        \* the earlier run of import_full: ids it minted, groups it scanned, rows and events it left
  tagged,       \* the last find_tag_value call: its arguments and what each implementation returned
  walk,         \* one scan_music_with_cfg-style loop over walk_filtered streams, root after root
  conf          \* gamus.toml, its temporary file, and the calls loading and saving [scanner]

\* The library side (import_full and the store) and the scanner side.
scanVars == <<device_cache, holder, poisoned, benchRuns, spc, known_speeds, cfg, root, seen, entry,
              all_files, handles, scanRet>>

\* The metadata side.
probeVars == <<probe, scored>>

\* The calls followed one at a time.
auxVars == <<capped, paths, again, tagged, walk, conf>>

\* Everything import_full and the store do not touch.
sideVars == <<scanVars, probeVars, auxVars>>

vars == <<pc, scanRes, ret, groups, gi, concurrency, st, cur, events, db, clock, calls,
          saves, lastSave, prevDb, latest, scanVars, probeVars, auxVars>>

\* ------------------------------------------------------------ LibraryStore
EmptyDb == [artists |-> <<>>, songs |-> <<>>, releases |-> <<>>, release_tracks |-> <<>>]

\* Index of the row whose primary key is idStr, 0 when there is none.
RowIndex(rows, idStr) ==
  IF \E i \in 1..Len(rows) : rows[i].id = idStr
  THEN CHOOSE i \in 1..Len(rows) : rows[i].id = idStr /\ \A j \in 1..(i - 1) : rows[j].id # idStr
  ELSE 0

artist_to_new_row(artist) == [id |-> IdToString(artist.id), name |-> artist.name, bio |-> artist.bio]
song_to_new_row(song) == [id |-> IdToString(song.id), title |-> song.title, acoustid |-> song.acoustid]
release_to_new_row(release) ==
  [id |-> IdToString(release.id), title |-> release.title, release_date |-> release.release_date]

\* Variant: a plain INSERT, without the ON CONFLICT clause taking effect.
UpsertArtistAlwaysInsert(rows, new_row, artist, now) ==
  Append(rows, [id |-> new_row.id, name |-> new_row.name, bio |-> new_row.bio,
                created_at |-> now, updated_at |-> now])

\* INSERT INTO artists (id, name, bio) ... ON CONFLICT (id) DO UPDATE SET name, bio.
\* created_at and updated_at are not in NewArtistRow: the database fills them on insert.
UpsertArtist(rows, new_row, artist, now) ==
  LET i == RowIndex(rows, new_row.id) IN
  IF i = 0
  THEN Append(rows, [id |-> new_row.id, name |-> new_row.name, bio |-> new_row.bio,
                     created_at |-> now, updated_at |-> now])
  ELSE [rows EXCEPT ![i].name = artist.name, ![i].bio = artist.bio]

\* Variant: the update is not restricted to the conflicting row.
UpsertSongAnyRow(rows, new_row, song, now) ==
  LET i == RowIndex(rows, new_row.id) IN
  IF i = 0
  THEN Append(rows, [id |-> new_row.id, title |-> new_row.title, acoustid |-> new_row.acoustid,
                     created_at |-> now, updated_at |-> now])
  ELSE [j \in 1..Len(rows) |-> [rows[j] EXCEPT !.title = song.title, !.acoustid = song.acoustid]]

UpsertSong(rows, new_row, song, now) ==
  LET i == RowIndex(rows, new_row.id) IN
  IF i = 0
  THEN Append(rows, [id |-> new_row.id, title |-> new_row.title, acoustid |-> new_row.acoustid,
                     created_at |-> now, updated_at |-> now])
  ELSE [rows EXCEPT ![i].title = song.title, ![i].acoustid = song.acoustid]

UpsertRelease(rows, new_row, release, now) ==
  LET i == RowIndex(rows, new_row.id) IN
  IF i = 0
  THEN Append(rows, [id |-> new_row.id, title |-> new_row.title, release_date |-> new_row.release_date,
                     created_at |-> now, updated_at |-> now])
  ELSE [rows EXCEPT ![i].title = release.title, ![i].release_date = release.release_date]

\* save_x(entity): connOk is whether get_conn and the statement succeed; a
\* failed call returns Err and leaves the tables as they were.
\* Result: [db, clock, ok].
save_artist(d, now, artist, connOk) ==
  IF connOk
  THEN [db |-> [d EXCEPT !.artists = UpsertArtist(d.artists, artist_to_new_row(artist), artist, now)],
        clock |-> now + 1, ok |-> TRUE]
  ELSE [db |-> d, clock |-> now, ok |-> FALSE]

save_song(d, now, song, connOk) ==
  IF connOk
  THEN [db |-> [d EXCEPT !.songs = UpsertSong(d.songs, song_to_new_row(song), song, now)],
        clock |-> now + 1, ok |-> TRUE]
  ELSE [db |-> d, clock |-> now, ok |-> FALSE]

save_release(d, now, release, connOk) ==
  IF connOk
  THEN [db |-> [d EXCEPT !.releases = UpsertRelease(d.releases, release_to_new_row(release), release, now)],
        clock |-> now + 1, ok |-> TRUE]
  ELSE [db |-> d, clock |-> now, ok |-> FALSE]

row_to_artist(row) ==
  [id |-> ParseId(row.id), name |-> row.name, variations |-> <<>>, bio |-> row.bio, sites |-> <<>>]
row_to_song(row) == [id |-> ParseId(row.id), title |-> row.title, acoustid |-> row.acoustid]
row_to_release(row) ==
  [id |-> ParseId(row.id), title |-> row.title, release_type |-> <<>>, release_date |-> row.release_date,
   genres |-> <<>>]

\* find_x(id): filter(id.eq(id_str)).first().optional(), mapped to the entity.
find_artist(d, artist_id) ==
  LET i == RowIndex(d.artists, IdToString(artist_id)) IN
  IF i = 0 THEN None ELSE Some(row_to_artist(d.artists[i]))

find_song(d, song_id) ==
  LET i == RowIndex(d.songs, IdToString(song_id)) IN
  IF i = 0 THEN None ELSE Some(row_to_song(d.songs[i]))

find_release(d, release_id) ==
  LET i == RowIndex(d.releases, IdToString(release_id)) IN
  IF i = 0 THEN None ELSE Some(row_to_release(d.releases[i]))

\* The release_tracks table of the schema; the Library port has no operation
\* that writes or reads it.
TrackRowIndex(d, track_id) == RowIndex(d.release_tracks, IdToString(track_id))

\* ------------------------------------------------------------ scan results
\* bandwidth_mb_s values a group can carry: unknown, and both sides of each
\* threshold of decide_concurrency.
Bandwidths == {None, Some(100), Some(101), Some(500), Some(501)}
\* The two of them that give the smallest buffer depths.
SlowBandwidths == {None, Some(100)}

RECURSIVE SumSeq(_)
SumSeq(s) == IF Len(s) = 0 THEN 0 ELSE s[1] + SumSeq(Tail(s))

\* ScanGroup { device: ScanDevice { id, bandwidth_mb_s }, files }. A file of a
\* group is named by its position; the reporter is given that file's path.
\* by_device only holds devices some file was pushed to: no group is empty.
MkGroups(sizes, bws) ==
  [g \in 1..Len(sizes) |->
     [device |-> [id |-> g, bandwidth_mb_s |-> bws[g]], files |-> [i \in 1..sizes[g] |-> i]]]

ScanResults ==
  UNION { { MkGroups(sizes, bws) :
              sizes \in { z \in [1..n -> 1..MaxFiles] : SumSeq(z) <= MaxFiles },
              bws \in [1..n -> SlowBandwidths] } :
          n \in 0..MaxGroups }

\* One device of any bandwidth, holding up to MaxWide files: more than the
\* smallest buffer depth.
WideScanResults ==
  { MkGroups(<<n>>, <<bw>>) : n \in 1..MaxWide, bw \in Bandwidths }

\* ---------------------------------------------------------------- the probe
\* Number of the file among all files of the scan, in listing order.
FileNo(gs, g, i) == SumSeq([h \in 1..(g - 1) |-> Len(gs[h].files)]) + i

\* Variant: the id is derived from the file, the same one at every probe of it.
MintIdOfFile(base, gs, g, i) == FileNo(gs, g, i)

\* SongId::new(), ReleaseId::new(), ReleaseTrackId::new(): a fresh random
\* Uuid per call, distinct from every other one minted; base is the number of
\* ids of each kind minted by the earlier runs of import_full.
MintId(base, gs, g, i) == base + FileNo(gs, g, i)

\* extract_sync's Ok value for file i of group g.
Extracted(base, gs, g, i) ==
  LET song == [id |-> MintId(base, gs, g, i), title |-> "title", acoustid |-> None]
      release == [id |-> MintId(base, gs, g, i), title |-> "Unknown Album", release_type |-> <<"Album">>,
                  release_date |-> None, genres |-> <<>>]
      track == [id |-> MintId(base, gs, g, i), song_id |-> song.id, release_id |-> release.id]
  IN [song |-> song, release |-> Some(release), track |-> Some(track)]

\* ---------------------------------------------------------- LibraryService
decide_concurrency(mb_s_hint) ==
  IF IsSome(mb_s_hint) /\ Unwrap(mb_s_hint) > 500 THEN 50
  ELSE IF IsSome(mb_s_hint) /\ Unwrap(mb_s_hint) > 100 THEN 20
  ELSE IF IsSome(mb_s_hint) THEN 4
  ELSE 8

\* Variant: only the first group is counted.
TotalFilesFirstGroup(gs) == IF Len(gs) = 0 THEN 0 ELSE Len(gs[1].files)

\* groups.iter().map(|g| g.files.len()).sum()
TotalFiles(gs) == SumSeq([g \in 1..Len(gs) |-> Len(gs[g].files)])

\* Variant: the song is saved before the probe result is looked at.
FilePipelineSaveFirst(d, now, probeOk, extracted, songOk, relOk) ==
  LET s1 == save_song(d, now, extracted.song, TRUE) IN
  IF ~probeOk
  THEN [db |-> s1.db, clock |-> s1.clock, calls |-> 1, res |-> [ok |-> FALSE, msg |-> "Metadata error"]]
  ELSE
    LET s2 == save_release(s1.db, s1.clock, Unwrap(extracted.release), relOk) IN
    [db |-> s2.db, clock |-> s2.clock, calls |-> 2,
     res |-> IF s2.ok THEN [ok |-> TRUE, msg |-> ""] ELSE [ok |-> FALSE, msg |-> "Repo release error"]]

\* Variant: a failed save_release takes the song row back.
FilePipelineRollback(d, now, probeOk, extracted, songOk, relOk) ==
  IF ~probeOk
  THEN [db |-> d, clock |-> now, calls |-> 0, res |-> [ok |-> FALSE, msg |-> "Metadata error"]]
  ELSE
    LET s1 == save_song(d, now, extracted.song, songOk) IN
    IF ~s1.ok
    THEN [db |-> s1.db, clock |-> s1.clock, calls |-> 1,
          res |-> [ok |-> FALSE, msg |-> "Repo song error"]]
    ELSE
      LET s2 == save_release(s1.db, s1.clock, Unwrap(extracted.release), relOk) IN
      IF ~s2.ok
      THEN [db |-> d, clock |-> s2.clock, calls |-> 2,
            res |-> [ok |-> FALSE, msg |-> "Repo release error"]]
      ELSE [db |-> s2.db, clock |-> s2.clock, calls |-> 2, res |-> [ok |-> TRUE, msg |-> ""]]

\* The async block of one file: probe result, then save_song, then
\* save_release when the release is present. The first failure ends it.
\* probeOk, songOk, relOk: whether the probe and each save succeed.
\* Result: [db, clock, calls, res] with res = [ok, msg]; calls counts the
\* save_* calls made.
FilePipeline(d, now, probeOk, extracted, songOk, relOk) ==
  IF ~probeOk
  THEN [db |-> d, clock |-> now, calls |-> 0, res |-> [ok |-> FALSE, msg |-> "Metadata error"]]
  ELSE
    LET s1 == save_song(d, now, extracted.song, songOk) IN
    IF ~s1.ok
    THEN [db |-> s1.db, clock |-> s1.clock, calls |-> 1,
          res |-> [ok |-> FALSE, msg |-> "Repo song error"]]
    ELSE IF IsSome(extracted.release)
    THEN
      LET s2 == save_release(s1.db, s1.clock, Unwrap(extracted.release), relOk) IN
      IF ~s2.ok
      THEN [db |-> s2.db, clock |-> s2.clock, calls |-> 2,
            res |-> [ok |-> FALSE, msg |-> "Repo release error"]]
      ELSE [db |-> s2.db, clock |-> s2.clock, calls |-> 2, res |-> [ok |-> TRUE, msg |-> ""]]
    ELSE [db |-> s1.db, clock |-> s1.clock, calls |-> 1, res |-> [ok |-> TRUE, msg |-> ""]]

\* Futures held by buffer_unordered: pulled from the iterator, not yet finished.
InProgress(s) == { i \in 1..Len(s) : s[i] \in {"queued", "probing", "probedOk", "probedErr"} }
Pending(s) == { i \in 1..Len(s) : s[i] = "pending" }

\* Variant: the depth test is off by one.
CanPullOffByOne(s, k) == Pending(s) # {} /\ Cardinality(InProgress(s)) <= k

\* BufferUnordered::poll_next first fills the queue up to its depth.
CanPull(s, k) == Pending(s) # {} /\ Cardinality(InProgress(s)) < k

\* Variant: the loop ends as soon as the iterator is drained.
StreamExhaustedIterOnly(s) == Pending(s) = {}

\* stream.next() yields None: iterator drained and no future in progress.
StreamExhausted(s) == Pending(s) = {} /\ InProgress(s) = {}

\* Variant: a finished future stays in the queue and is polled again.
YieldedPolledAgain == "probedErr"

\* State of a file's future once its output has been yielded.
Yielded == "done"

\* Variant: the first error ends the import.
AfterReportAbortOnError(res) == IF res.ok THEN "consume" ELSE "finish"

\* Where the while-let loop goes after reporting one result.
AfterReport(res) == "consume"

\* Variant: a per-file error makes the import fail.
ImportResultFailOnError(evs) ==
  IF \E n \in 1..Len(evs) : evs[n].kind = "error" THEN "Err" ELSE "Ok"

\* Value import_full returns after finish().
ImportResult(evs) == "Ok"

NoFile == <<0, 0>>
NoResult == [ok |-> TRUE, file |-> NoFile, msg |-> ""]

StartEvent(total) == [kind |-> "start", total |-> total, file |-> NoFile, msg |-> ""]
SuccessEvent(file) == [kind |-> "success", total |-> 0, file |-> file, msg |-> ""]
ErrorEvent(file, msg) == [kind |-> "error", total |-> 0, file |-> file, msg |-> msg]
FinishEvent == [kind |-> "finish", total |-> 0, file |-> NoFile, msg |-> ""]

storeGhost == <<saves, lastSave, prevDb, latest>>

\* scan_library_files().await returned Ok(gs).
ScanOk(gs) ==
  /\ pc = "scan"
  /\ scanRes' = "Ok"
  /\ groups' = gs
  /\ pc' = "start"
  /\ UNCHANGED <<ret, gi, concurrency, st, cur, events, db, clock, calls, storeGhost, sideVars>>

\* Variant: finish() is reported before the error is returned.
ScanErrAfterFinish ==
  /\ pc = "scan"
  /\ scanRes' = "Err"
  /\ events' = Append(events, FinishEvent)
  /\ pc' = "returned"
  /\ ret' = "Err"
  /\ UNCHANGED <<groups, gi, concurrency, st, cur, db, clock, calls, storeGhost, sideVars>>

\* scan_library_files().await returned Err: map_err and `?`.
ScanErr ==
  /\ pc = "scan"
  /\ scanRes' = "Err"
  /\ pc' = "returned"
  /\ ret' = "Err"
  /\ UNCHANGED <<groups, gi, concurrency, st, cur, events, db, clock, calls, storeGhost, sideVars>>

\* reporter.start(total_files).await
EmitStart ==
  /\ pc = "start"
  /\ events' = Append(events, StartEvent(TotalFiles(groups)))
  /\ gi' = 1
  /\ pc' = "group"
  /\ UNCHANGED <<scanRes, ret, groups, concurrency, st, cur, db, clock, calls, storeGhost, sideVars>>

\* for group in groups: decide the concurrency and build the stream.
NextGroup ==
  /\ pc = "group"
  /\ gi <= Len(groups)
  /\ concurrency' = decide_concurrency(groups[gi].device.bandwidth_mb_s)
  /\ st' = [i \in 1..Len(groups[gi].files) |-> "pending"]
  /\ pc' = "consume"
  /\ UNCHANGED <<scanRes, ret, groups, gi, cur, events, db, clock, calls, storeGhost, sideVars>>

\* The for loop has no group left.
LoopEnd ==
  /\ pc = "group"
  /\ gi > Len(groups)
  /\ pc' = "finish"
  /\ UNCHANGED <<scanRes, ret, groups, gi, concurrency, st, cur, events, db, clock, calls, storeGhost, sideVars>>

\* buffer_unordered takes the next file of the iterator into its queue.
Pull ==
  /\ pc = "consume"
  /\ CanPull(st, concurrency)
  /\ LET i == CHOOSE j \in Pending(st) : \A h \in Pending(st) : j <= h
     IN st' = [st EXCEPT ![i] = "queued"]
  /\ UNCHANGED <<scanRes, pc, ret, groups, gi, concurrency, cur, events, db, clock, calls, storeGhost, sideVars>>

\* First poll of a file's future: extract_from_path hands extract_sync to
\* spawn_blocking and awaits the join.
FirstPoll(i) ==
  /\ pc = "consume"
  /\ ~CanPull(st, concurrency)
  /\ st[i] = "queued"
  /\ st' = [st EXCEPT ![i] = "probing"]
  /\ UNCHANGED <<scanRes, pc, ret, groups, gi, concurrency, cur, events, db, clock, calls, storeGhost, sideVars>>

\* The blocking worker finishes extract_sync with Ok or Err.
ProbeFinish(i, ok) ==
  /\ st[i] = "probing"
  /\ st' = [st EXCEPT ![i] = IF ok THEN "probedOk" ELSE "probedErr"]
  /\ UNCHANGED <<scanRes, pc, ret, groups, gi, concurrency, cur, events, db, clock, calls, storeGhost, sideVars>>

\* The future is polled after the join: the rest of the async block runs to
\* its end without suspending, and stream.next() yields its output.
Complete(i, songOk, relOk) ==
  /\ pc = "consume"
  /\ ~CanPull(st, concurrency)
  /\ st[i] \in {"probedOk", "probedErr"}
  /\ LET out == FilePipeline(db, clock, st[i] = "probedOk", Extracted(again.minted, groups, gi, i), songOk, relOk)
     IN /\ db' = out.db
        /\ clock' = out.clock
        /\ calls' = calls + out.calls
        /\ cur' = [ok |-> out.res.ok, file |-> <<gi, i>>, msg |-> out.res.msg]
  /\ st' = [st EXCEPT ![i] = Yielded]
  /\ pc' = "report"
  /\ UNCHANGED <<scanRes, ret, groups, gi, concurrency, events, storeGhost, sideVars>>

\* match result: reporter.on_success(&path) or reporter.on_error(&path, &msg).
Report ==
  /\ pc = "report"
  /\ events' = Append(events, IF cur.ok THEN SuccessEvent(cur.file) ELSE ErrorEvent(cur.file, cur.msg))
  /\ pc' = AfterReport(cur)
  /\ cur' = NoResult
  /\ UNCHANGED <<scanRes, ret, groups, gi, concurrency, st, db, clock, calls, storeGhost, sideVars>>

\* stream.next() yielded None: the while-let loop ends, next group.
GroupDone ==
  /\ pc = "consume"
  /\ StreamExhausted(st)
  /\ gi' = gi + 1
  /\ st' = <<>>
  /\ concurrency' = 0
  /\ pc' = "group"
  /\ UNCHANGED <<scanRes, ret, groups, cur, events, db, clock, calls, storeGhost, sideVars>>

\* reporter.finish().await; Ok(())
Finish ==
  /\ pc = "finish"
  /\ events' = Append(events, FinishEvent)
  /\ ret' = ImportResult(events)
  /\ pc' = "returned"
  /\ UNCHANGED <<scanRes, groups, gi, concurrency, st, cur, db, clock, calls, storeGhost, sideVars>>

\* ---------------------------------------------- spectral analysis and scoring
\* Frequencies are multiples of 500 Hz, up to this many steps.
MaxFreqSteps == 48

Freqs == { 500 * k : k \in 0..MaxFreqSteps }

\* AnalysisOutcome; freq is the cutoff of CutoffDetected and the max_freq of
\* NoCutoffDetected.
CutoffDetected(f) == [kind |-> "CutoffDetected", freq |-> f]
NoCutoffDetected(f) == [kind |-> "NoCutoffDetected", freq |-> f]
Inconclusive == [kind |-> "Inconclusive", freq |-> 0]
Outcomes == { CutoffDetected(f) : f \in Freqs } \cup { NoCutoffDetected(f) : f \in Freqs } \cup {Inconclusive}

\* build_report's level for a score; scores are kept in tenths.
QualityLevel(outcome, score) ==
  IF outcome.kind = "Inconclusive" THEN "Inconclusive"
  ELSE IF score >= 95 THEN "Perfect"
  ELSE IF score >= 80 THEN "High"
  ELSE IF score >= 60 THEN "Medium"
  ELSE "Low"

\* Variant: an inconclusive outcome falls into the lowest cutoff arm.
score_outcome_inconclusive_low(outcome) ==
  LET f == outcome.freq
      score == IF outcome.kind = "NoCutoffDetected" THEN 100
               ELSE IF outcome.kind = "Inconclusive" \/ f < 15000 THEN 30
               ELSE IF f >= 21500 THEN 98
               ELSE IF f >= 20000 THEN 90
               ELSE IF f >= 19000 THEN 80
               ELSE IF f >= 17000 THEN 70
               ELSE IF f >= 16000 THEN 60
               ELSE 50
  IN [outcome |-> outcome, quality_score |-> score, level |-> QualityLevel(outcome, score)]

\* SpectralAnalyzer::score_outcome.
score_outcome(outcome) ==
  LET f == outcome.freq
      score == IF outcome.kind = "CutoffDetected"
               THEN IF f >= 21500 THEN 98
                    ELSE IF f >= 20000 THEN 90
                    ELSE IF f >= 19000 THEN 80
                    ELSE IF f >= 17000 THEN 70
                    ELSE IF f >= 16000 THEN 60
                    ELSE IF f >= 15000 THEN 50
                    ELSE 30
               ELSE IF outcome.kind = "NoCutoffDetected" THEN 100
               ELSE 0
  IN [outcome |-> outcome, quality_score |-> score, level |-> QualityLevel(outcome, score)]

\* ScoringConfig::default(), scores in tenths.
DefaultScoringConfig ==
  [cutoff_bands |-> << <<21000, 100>>, <<20000, 95>>, <<18000, 80>>, <<16500, 70>>, <<15000, 60>>,
                       <<13000, 45>>, <<11500, 20>> >>,
   cutoff_fallback_score |-> 40,
   full_band_scores |-> <<100, 95, 90>>]

\* ScoringConfig::score_for_cutoff: the first band whose threshold freq_hz reaches.
RECURSIVE FirstBand(_, _, _)
FirstBand(bands, fallback, freq_hz) ==
  IF Len(bands) = 0 THEN fallback
  ELSE IF freq_hz >= bands[1][1] THEN bands[1][2]
  ELSE FirstBand(Tail(bands), fallback, freq_hz)

score_for_cutoff(config, freq_hz) == FirstBand(config.cutoff_bands, config.cutoff_fallback_score, freq_hz)

\* ScoringConfig::score_for_full_band.
score_for_full_band(config, max_freq_hz) ==
  IF max_freq_hz >= 21000 THEN config.full_band_scores[1]
  ELSE IF max_freq_hz >= 20000 THEN config.full_band_scores[2]
  ELSE config.full_band_scores[3]

\* BitrateSafetyConfig::default(), thresholds in bps and caps in tenths.
DefaultBitrateSafetyConfig ==
  [very_low_bps_max |-> 80000, low_bps_max |-> 128000, medium_bps_max |-> 192000,
   high_bps_max |-> 256000, lossy_bps_max |-> 400000,
   very_low_score_cap |-> 30, low_score_cap |-> 55, medium_score_cap |-> 75,
   high_score_cap |-> 85, lossy_score_cap |-> 90]

\* The bitrates apply_cap is called with: none known (<= 0), and both sides of
\* every threshold of the default configuration.
Bitrates ==
  {-1, 0, 1, 64000, 79999, 80000, 127999, 128000, 191999, 192000, 255999, 256000, 399999, 400000,
   900000}

\* Scores in tenths, 0.0 to 10.0.
Scores == 0..100

\* One arm of apply_cap: the score, lowered to cap when above it, and the note
\* pushed to the assessment when it was lowered.
CapAt(score, cap, note) ==
  IF score > cap THEN [score |-> cap, note |-> note] ELSE [score |-> score, note |-> ""]

\* Variant: the lowest bucket takes the cap of the highest one.
apply_cap_very_low_as_lossy(config, bitrate_bps, score) ==
  IF bitrate_bps <= 0 THEN [score |-> score, note |-> ""]
  ELSE IF bitrate_bps < config.very_low_bps_max
    THEN CapAt(score, config.lossy_score_cap, " (Bitrate muy bajo)")
  ELSE IF bitrate_bps < config.low_bps_max THEN CapAt(score, config.low_score_cap, " (Bitrate bajo)")
  ELSE IF bitrate_bps < config.medium_bps_max THEN CapAt(score, config.medium_score_cap, "")
  ELSE IF bitrate_bps < config.high_bps_max THEN CapAt(score, config.high_score_cap, "")
  ELSE IF bitrate_bps < config.lossy_bps_max THEN CapAt(score, config.lossy_score_cap, "")
  ELSE [score |-> score, note |-> ""]

\* BitrateSafetyConfig::apply_cap: the score and the note it leaves.
apply_cap(config, bitrate_bps, score) ==
  IF bitrate_bps <= 0 THEN [score |-> score, note |-> ""]
  ELSE IF bitrate_bps < config.very_low_bps_max
    THEN CapAt(score, config.very_low_score_cap, " (Bitrate muy bajo)")
  ELSE IF bitrate_bps < config.low_bps_max THEN CapAt(score, config.low_score_cap, " (Bitrate bajo)")
  ELSE IF bitrate_bps < config.medium_bps_max THEN CapAt(score, config.medium_score_cap, "")
  ELSE IF bitrate_bps < config.high_bps_max THEN CapAt(score, config.high_score_cap, "")
  ELSE IF bitrate_bps < config.lossy_bps_max THEN CapAt(score, config.lossy_score_cap, "")
  ELSE [score |-> score, note |-> ""]

\* The final score of an analysis: the score of the outcome, capped by the
\* bitrate when the decoder knows one.
final_score(outcome, bitrate_bps) ==
  apply_cap(DefaultBitrateSafetyConfig, bitrate_bps, score_outcome(outcome).quality_score)

NoCapped == [fn |-> "none", outcome |-> Inconclusive, score |-> 0, b1 |-> 0, b2 |-> 0,
             s1 |-> 0, s2 |-> 0, note |-> "", level |-> "Inconclusive"]

NoScored == [fn |-> "none", outcome |-> Inconclusive, f2 |-> 0, s1 |-> 0, s2 |-> 0]

\* ------------------------------------------------------------ tag aliases
\* A tag value is the sequence of its characters, " " being whitespace.
TagValues == UNION { [1..n -> {" ", "a"}] : n \in 0..MaxTagLen }

\* The aliases of one canonical field, KEYS_TITLE for instance, in order.
Aliases == [n \in 1..MaxAliases |-> n]

\* collect_normalized_tags: the container's tags, some aliases among them.
TagMaps == UNION { [present -> TagValues] : present \in SUBSET (1..MaxAliases) }

\* The lists of aliases find_tag_value is called with: every prefix of Aliases.
AliasLists == { SubSeq(Aliases, 1, n) : n \in 0..MaxAliases }

\* str::trim: leading and trailing whitespace removed.
trim(v) ==
  LET inked == { i \in 1..Len(v) : v[i] # " " } IN
  IF inked = {} THEN <<>>
  ELSE SubSeq(v, CHOOSE i \in inked : \A j \in inked : i <= j, CHOOSE i \in inked : \A j \in inked : j <= i)

\* tag_keys.rs: keys.iter().find_map(|key| tags.get(*key).map(|v| v.trim()))
\* stops at the first alias present in tags; filter then drops an empty value.
find_tag_value(tags, keys) ==
  LET present == { n \in 1..Len(keys) : keys[n] \in DOMAIN tags } IN
  IF present = {} THEN None
  ELSE LET first == CHOOSE n \in present : \A m \in present : n <= m
           v == trim(tags[keys[first]])
       IN IF v # <<>> THEN Some(v) ELSE None

\* mapping.rs: the for loop returns at the first alias whose trimmed value is
\* not empty.
RECURSIVE find_tag_value_mapping(_, _)
find_tag_value_mapping(tags, keys) ==
  IF Len(keys) = 0 THEN None
  ELSE IF keys[1] \in DOMAIN tags /\ trim(tags[keys[1]]) # <<>> THEN Some(trim(tags[keys[1]]))
  ELSE find_tag_value_mapping(tags, Tail(keys))

\* ------------------------------------------------------------ async_walker
\* The directory structures walked. Directory 1 is /m and directory 2 is its
\* child /m/d; each holds one file, and some of the symbolic links l -> /m in
\* /m and u -> /m in /m/d. An entry's target is the directory a "dir" entry
\* is, or a "symlink" entry resolves to.
FileSystems ==
  { [dir \in 1..2 |->
       IF dir = 1
       THEN <<[name |-> "f", kind |-> "file", target |-> 0], [name |-> "d", kind |-> "dir", target |-> 2]>>
            \o (IF "l" \in links THEN <<[name |-> "l", kind |-> "symlink", target |-> 1]>> ELSE <<>>)
       ELSE <<[name |-> "g", kind |-> "file", target |-> 0]>>
            \o (IF "u" \in links THEN <<[name |-> "u", kind |-> "symlink", target |-> 1]>> ELSE <<>>)] :
    links \in SUBSET {"l", "u"} }

WalkConfigs == [follow_symlinks : BOOLEAN, max_depth : 0..MaxDepth, dedup_dirs : BOOLEAN]

\* cfg.roots: one root, a root and a directory nested in it, the same root twice.
RootLists ==
  LET m == [path |-> <<"m">>, dir |-> 1]
      d == [path |-> <<"m", "d">>, dir |-> 2]
  IN {<<m>>, <<m, d>>, <<m, m>>}

\* Frame::Pending { path, depth: 0, id_hint: None } of a root.
RootFrame(r) == [kind |-> "Pending", path |-> r.path, dir |-> r.dir, depth |-> 0, id_hint |-> None]

NoWalk ==
  [stage |-> "idle", fs |-> <<>>, cfg |-> [follow_symlinks |-> FALSE, max_depth |-> 0, dedup_dirs |-> FALSE],
   roots |-> <<>>, ri |-> 0, stack |-> <<>>, visited |-> {}, opened |-> <<>>, all_files |-> <<>>]

\* Variant: the visited set is never consulted.
dedup_skip_never(walk_cfg, visited, file_id) == FALSE

\* if cfg.dedup_dirs { ... if !visited.insert(id) { continue; } }: the
\* directory is skipped when its identity is already in visited.
dedup_skip(walk_cfg, visited, file_id) == walk_cfg.dedup_dirs /\ IsSome(file_id) /\ Unwrap(file_id) \in visited

\* -------------------------------------------------------- TomlConfigBackend
\* gamus.toml is "missing" or holds the value of its [scanner] section; the
\* calls are the load of a scan, the save of a command and a load made after
\* that save has returned.
NoConf ==
  [file |-> "old", tmp |-> None, saved |-> None,
   call |-> [r \in {"scan", "command", "later"} |-> [at |-> "idle", cfg |-> "none", res |-> "none"]]]

\* load_section_with_default: T::default() when the file is missing.
load_section_with_default(file) == IF file = "missing" THEN "default" ELSE file

\* -------------------------------------------------------------- GamusPaths
\* A path is the sequence of its components, PathBuf::join appends one.
\* What the process has for GAMUS_BASE_DIR: the variable unset, set to a
\* Unicode string, or set to bytes that are not valid Unicode.
Envs ==
  {[set |-> FALSE, unicode |-> FALSE, value |-> <<>>]} \cup
  { [set |-> TRUE, unicode |-> u, value |-> v] : u \in BOOLEAN, v \in {<<>>, <<"tmp">>, <<"tmp", "g">>} }

\* std::env::var: Ok only for a variable that is set and valid Unicode.
env_var(env) == IF env.set /\ env.unicode THEN Some(env.value) ELSE None

\* ProjectDirs::from("com", "gamus", "gamus"): the platform directories, or
\* None when no home directory is known.
ProjectDirsResults ==
  {None,
   Some([config_dir |-> <<"home", ".config", "gamus">>, data_dir |-> <<"home", ".local", "share", "gamus">>,
         cache_dir |-> <<"home", ".cache", "gamus">>])}

\* std::fs::create_dir_all: the directory and every ancestor of it exist
\* afterwards; a failure creates nothing.
create_dir_all(fs, path, ok) ==
  IF ok THEN fs \cup { SubSeq(path, 1, n) : n \in 0..Len(path) } ELSE fs

NoPaths ==
  [stage |-> "idle", env |-> [set |-> FALSE, unicode |-> FALSE, value |-> <<>>], proj |-> None, fs |-> {},
   base_dir |-> <<>>, config_dir |-> <<>>, data_dir |-> <<>>, cache_dir |-> <<>>, res |-> "none"]

\* ------------------------------------------------------------- FfmpegProbe
\* What analyze_file returns: one of AnalysisError's variants, or the quality
\* scored from the outcome detect_cutoff found.
AnalysisErrors == {"FileOpen", "FFmpeg", "NoCompatibleTrack", "InvalidAudioFormat"}
AnalyzerResults ==
  { [ok |-> FALSE, err |-> e, outcome |-> Inconclusive] : e \in AnalysisErrors }
    \cup { [ok |-> TRUE, err |-> "", outcome |-> o] : o \in Outcomes }

\* One file as the probe meets it: whether fs::metadata and ffmpeg's open
\* succeed, whether the probe was built with an AnalysisConfig, and what the
\* analyzer returns for the file.
ProbeInputs ==
  { [fsOk |-> a, openOk |-> b, analysis_config |-> c, analyzed |-> r] :
      a \in BOOLEAN, b \in BOOLEAN, c \in {None, Some("default")}, r \in AnalyzerResults }

\* Variant: the analyzer's error is handed on.
run_spectral_analysis_propagate(analysis_config, analyzed) ==
  IF analysis_config = None THEN [ok |-> TRUE, quality |-> None]
  ELSE IF analyzed.ok THEN [ok |-> TRUE, quality |-> Some(score_outcome(analyzed.outcome))]
  ELSE [ok |-> FALSE, quality |-> None]

\* run_spectral_analysis: Result<Option<AudioQuality>, MetadataError>.
run_spectral_analysis(analysis_config, analyzed) ==
  IF analysis_config = None THEN [ok |-> TRUE, quality |-> None]
  ELSE IF analyzed.ok THEN [ok |-> TRUE, quality |-> Some(score_outcome(analyzed.outcome))]
  ELSE [ok |-> TRUE, quality |-> None]

NoExtracted == [song |-> <<>>, release |-> None, track |-> None]

\* extract_sync for a file whose ids are minted as `id`.
extract_sync(in, id) ==
  IF ~in.fsOk THEN [ok |-> FALSE, err |-> "Io", value |-> NoExtracted]
  ELSE IF ~in.openOk THEN [ok |-> FALSE, err |-> "Unsupported", value |-> NoExtracted]
  ELSE
    LET song == [id |-> id, title |-> "title", acoustid |-> None]
        release == [id |-> id, title |-> "Unknown Album", release_type |-> <<"Album">>,
                    release_date |-> None, genres |-> <<>>]
        spectral == run_spectral_analysis(in.analysis_config, in.analyzed)
        analysis == [bpm |-> None, features |-> None, quality |-> spectral.quality]
        track == [id |-> id, song_id |-> song.id, release_id |-> release.id,
                  analysis |-> Some(analysis)]
    IN IF ~spectral.ok THEN [ok |-> FALSE, err |-> "Internal", value |-> NoExtracted]
       ELSE [ok |-> TRUE, err |-> "", value |-> [song |-> song, release |-> Some(release),
                                                  track |-> Some(track)]]

NoProbeInput == [fsOk |-> FALSE, openOk |-> FALSE, analysis_config |-> None,
                 analyzed |-> [ok |-> FALSE, err |-> "", outcome |-> Inconclusive]]
NoProbe == [stage |-> "none", input |-> NoProbeInput,
            out |-> [ok |-> FALSE, err |-> "", value |-> NoExtracted],
            res |-> [ok |-> FALSE, msg |-> ""]]

\* ------------------------------------------------------------- the scanner
\* Calls of scan_library_files that may overlap, all on clones of one FsScanner.
MaxCallers == 2
\* Roots a ScannerConfig lists at most.
MaxRoots == 2
\* Entries the walker yields during one call at most, over all roots.
MaxEntries == 3
\* SAMPLE_BYTES, in MB.
SampleMB == 20

Callers == 1..MaxCallers

\* File names below a root; a path is a root and a name.
Names == {"a", "b"}
NoPath == [root |-> 0, name |-> ""]

\* st_dev of the filesystem a path is on: "b" is a mount point of a second
\* device, everything else of every root is on the first.
DeviceOf(path) == IF path.name = "b" THEN "dev2" ELSE "dev1"

\* What the walker's stream yields for one entry of root r, and what
\* scan_music_with_cfg finds out about it:
\*   walkErr  Err(e)
\*   other    Ok(entry), not (is_file and is_audio)
\*   statErr  Ok(entry), an audio file, file_metadata fails
\*   audio    Ok(entry), an audio file, file_metadata succeeds
\* devOk is whether device_id will succeed for the path.
NoEntry == [kind |-> "none", path |-> NoPath, devOk |-> TRUE]
ErrEntry == [kind |-> "walkErr", path |-> NoPath, devOk |-> TRUE]
FileEntries(r, kinds, names, devOks) ==
  { [kind |-> k, path |-> [root |-> r, name |-> n], devOk |-> d] :
      k \in kinds, n \in names, d \in devOks }
WalkerEntries(r) ==
  {ErrEntry} \cup FileEntries(r, {"other", "statErr"}, {"a"}, {TRUE})
             \cup FileEntries(r, {"audio"}, {"a"}, BOOLEAN)
             \cup FileEntries(r, {"audio"}, {"b"}, {TRUE})
\* Entries of a healthy tree on the first device.
PlainEntries(r) == FileEntries(r, {"audio"}, {"a"}, {TRUE})

\* One iteration of the while-let over the walker's stream.
PushEntryDefaultMetadata(files, e) ==
  IF e.kind \in {"audio", "statErr"} THEN Append(files, [path |-> e.path, devOk |-> e.devOk]) ELSE files

PushEntry(files, e) ==
  IF e.kind = "audio" THEN Append(files, [path |-> e.path, devOk |-> e.devOk]) ELSE files

\* The device a file is bucketed under.
dev_id(f) == IF f.devOk THEN DeviceOf(f.path) ELSE "UNKNOWN_DEVICE"

DeviceIds(files) == { dev_id(files[i]) : i \in 1..Len(files) }

\* Iteration orders a HashMap with these keys can have.
Orders(keys) == { o \in [1..Cardinality(keys) -> keys] : \A i, j \in DOMAIN o : o[i] = o[j] => i = j }

\* by_device, listed in the iteration order `order`.
by_device_overwrite(files, order) ==
  [k \in DOMAIN order |->
     LET mine == SelectSeq(files, LAMBDA f : dev_id(f) = order[k])
     IN [id |-> order[k], files |-> <<mine[Len(mine)]>>]]

by_device(files, order) ==
  [k \in DOMAIN order |->
     [id |-> order[k], files |-> SelectSeq(files, LAMBDA f : dev_id(f) = order[k])]]

\* The task spawned for one bucket: done at once with the cached speed, or a
\* benchmark still to run; run is how the benchmark went once it has run.
NoRun == [open |-> FALSE, read_mb |-> 0, secs_ds |-> 0]
SpawnHandle(bucket, known) ==
  IF bucket.id \in DOMAIN known
  THEN [id |-> bucket.id, files |-> bucket.files, bw |-> Some(known[bucket.id]), done |-> TRUE,
        run |-> NoRun]
  ELSE [id |-> bucket.id, files |-> bucket.files, bw |-> None, done |-> FALSE, run |-> NoRun]

\* measure_device_throughput: Err when the sample cannot be opened or read,
\* else MB/s, kept here in tenths: read_mb MB read in secs_ds tenths of a second.
measure_device_throughput(run) ==
  IF ~run.open THEN [ok |-> FALSE, mb_s_tenths |-> 0]
  ELSE IF run.secs_ds = 0 THEN [ok |-> TRUE, mb_s_tenths |-> 0]
  ELSE [ok |-> TRUE, mb_s_tenths |-> (run.read_mb * 100) \div run.secs_ds]

\* .ok().map(|bw| bw as u64): the cast drops the fraction.
bw_opt(measured) == IF measured.ok THEN Some(measured.mb_s_tenths \div 10) ELSE None

\* Runs of the benchmark: the sample cannot be opened; a read that takes no
\* measurable time; a full sample read in 0.3 s.
BenchRuns ==
  { NoRun,
    [open |-> TRUE, read_mb |-> SampleMB, secs_ds |-> 0],
    [open |-> TRUE, read_mb |-> SampleMB, secs_ds |-> 3] }
\* Those that measure something.
MeasuredBenchRuns == { r \in BenchRuns : r.open }

\* FsScanGroup of a finished task, and the ScanGroup it is mapped to.
GroupOf(h) == [device |-> [id |-> h.id, bandwidth_mb_s |-> h.bw], files |-> h.files]

\* guard.insert for every group that carries a speed.
RECURSIVE MergeSpeeds(_, _)
MergeSpeeds(cache, gs) ==
  IF Len(gs) = 0 THEN cache
  ELSE LET g == gs[1]
           next == IF IsSome(g.device.bandwidth_mb_s)
                   THEN [d \in DOMAIN cache \cup {g.device.id} |->
                           IF d = g.device.id THEN Unwrap(g.device.bandwidth_mb_s) ELSE cache[d]]
                   ELSE cache
       IN MergeSpeeds(next, Tail(gs))

NoScanRet == [status |-> "none", groups |-> <<>>, err |-> ""]
OkScanRet(gs) == [status |-> "Ok", groups |-> gs, err |-> ""]
ErrScanRet(e) == [status |-> "Err", groups |-> <<>>, err |-> e]

NoSave == [table |-> "none", entity |-> <<>>, ok |-> FALSE, repeat |-> FALSE]

Init ==
  /\ pc = "scan"
  /\ scanRes = "none"
  /\ ret = "none"
  /\ groups = <<>>
  /\ gi = 0
  /\ concurrency = 0
  /\ st = <<>>
  /\ cur = NoResult
  /\ events = <<>>
  /\ db = EmptyDb
  /\ clock = 0
  /\ calls = 0
  /\ saves = 0
  /\ lastSave = NoSave
  /\ prevDb = EmptyDb
  /\ latest = <<>>
  /\ device_cache = <<>>
  /\ holder = None
  /\ poisoned = FALSE
  /\ benchRuns = [d \in {"dev1", "dev2", "UNKNOWN_DEVICE"} |-> 0]
  /\ spc = [c \in Callers |-> "idle"]
  /\ known_speeds = [c \in Callers |-> <<>>]
  /\ cfg = [c \in Callers |-> [roots |-> 0]]
  /\ root = [c \in Callers |-> 0]
  /\ seen = [c \in Callers |-> 0]
  /\ entry = [c \in Callers |-> NoEntry]
  /\ all_files = [c \in Callers |-> <<>>]
  /\ handles = [c \in Callers |-> <<>>]
  /\ scanRet = [c \in Callers |-> NoScanRet]
  /\ probe = NoProbe
  /\ scored = NoScored
  /\ capped = NoCapped
  /\ paths = NoPaths
  /\ conf = NoConf
  /\ walk = NoWalk
  /\ tagged = [called |-> FALSE, tags |-> <<>>, keys |-> <<>>, tag_keys |-> None, mapping |-> None]
  /\ again = [runs |-> 0, minted |-> 0, groups |-> <<>>, db |-> EmptyDb, events |-> <<>>]

Files == IF pc \in {"consume", "report"} THEN DOMAIN st ELSE {}

\* Every step of import_full after the scan; probeOuts and saveOuts are the
\* outcomes the probe and the store can have.
Run(probeOuts, saveOuts) ==
  \/ ScanErr
  \/ EmitStart
  \/ NextGroup
  \/ LoopEnd
  \/ Pull
  \/ \E i \in Files : FirstPoll(i)
  \/ \E i \in Files, ok \in probeOuts : ProbeFinish(i, ok)
  \/ \E i \in Files, songOk \in saveOuts, relOk \in saveOuts : Complete(i, songOk, relOk)
  \/ Report
  \/ GroupDone
  \/ Finish

Next ==
  \/ \E gs \in ScanResults : ScanOk(gs)
  \/ Run(BOOLEAN, BOOLEAN)

Spec == Init /\ [][Next]_vars

\* import_full over one device, with a probe and a store that do not fail.
NextWide ==
  \/ \E gs \in WideScanResults : ScanOk(gs)
  \/ Run({TRUE}, {TRUE})

SpecWide == Init /\ [][NextWide]_vars

\* ------------------------------------------- direct calls of the Library port
\* Entities commands hand to save_*: two ids per table, two payloads per id.
StoreIds == {1, 2}
Payloads == {<<"a", None>>, <<"b", Some("x")>>}

ArtistInputs ==
  { [id |-> i, name |-> p[1], variations |-> <<"aka">>, bio |-> p[2], sites |-> <<"url">>] :
      i \in StoreIds, p \in Payloads }
SongInputs == { [id |-> i, title |-> p[1], acoustid |-> p[2]] : i \in StoreIds, p \in Payloads }
ReleaseInputs ==
  { [id |-> i, title |-> p[1], release_type |-> <<"Album">>, release_date |-> p[2], genres |-> <<>>] :
      i \in StoreIds, p \in Payloads }

importVars == <<pc, scanRes, ret, groups, gi, concurrency, st, cur, events, calls>>

\* Bookkeeping of one direct call: what it was, the tables before it, and
\* the entity now expected under its id.
Record(table, entity, out) ==
  /\ db' = out.db
  /\ clock' = out.clock
  /\ saves' = saves + 1
  /\ prevDb' = db
  /\ lastSave' = [table |-> table, entity |-> entity, ok |-> out.ok,
                  repeat |-> lastSave.ok /\ lastSave.table = table /\ lastSave.entity = entity]
  /\ latest' = IF out.ok
               THEN [k \in DOMAIN latest \cup {<<table, entity.id>>} |->
                       IF k = <<table, entity.id>> THEN entity ELSE latest[k]]
               ELSE latest
  /\ UNCHANGED <<importVars, sideVars>>

CallSaveArtist(artist, connOk) ==
  /\ saves < MaxSaves
  /\ Record("artists", artist, save_artist(db, clock, artist, connOk))

CallSaveSong(song, connOk) ==
  /\ saves < MaxSaves
  /\ Record("songs", song, save_song(db, clock, song, connOk))

CallSaveRelease(release, connOk) ==
  /\ saves < MaxSaves
  /\ Record("releases", release, save_release(db, clock, release, connOk))

NextStore ==
  \/ \E a \in ArtistInputs, connOk \in BOOLEAN : CallSaveArtist(a, connOk)
  \/ \E s \in SongInputs, connOk \in BOOLEAN : CallSaveSong(s, connOk)
  \/ \E r \in ReleaseInputs, connOk \in BOOLEAN : CallSaveRelease(r, connOk)

StoreSpec == Init /\ [][NextStore]_vars

\* ------------------------------------------------- scan_library_files calls
libVars == <<pc, scanRes, ret, groups, gi, concurrency, st, cur, events, db, clock, calls, storeGhost>>

\* Who holds the guard once the snapshot block is left.
SnapshotGuardKept(c) == Some(c)

SnapshotGuardAfter(c) == None

\* The groups the joined tasks give, in spawn order.
JoinedGroups(hs) == [k \in DOMAIN hs |-> GroupOf(hs[k])]

\* device_cache.lock() at the snapshot step: a poisoned mutex is mapped to
\* ScanError::Internal and the call returns.
LockSnapshot(c) ==
  /\ spc[c] = "idle"
  /\ holder = None
  /\ IF poisoned
     THEN /\ spc' = [spc EXCEPT ![c] = "returned"]
          /\ scanRet' = [scanRet EXCEPT ![c] = ErrScanRet("Internal")]
          /\ UNCHANGED holder
     ELSE /\ spc' = [spc EXCEPT ![c] = "snapLocked"]
          /\ holder' = Some(c)
          /\ UNCHANGED scanRet
  /\ UNCHANGED <<device_cache, poisoned, benchRuns, known_speeds, cfg, root, seen, entry, all_files,
                 handles, libVars, probeVars, auxVars>>

\* guard.clone(), then the guard goes out of scope.
CloneSnapshot(c) ==
  /\ spc[c] = "snapLocked"
  /\ known_speeds' = [known_speeds EXCEPT ![c] = device_cache]
  /\ holder' = SnapshotGuardAfter(c)
  /\ spc' = [spc EXCEPT ![c] = "load"]
  /\ UNCHANGED <<device_cache, poisoned, benchRuns, cfg, root, seen, entry, all_files, handles,
                 scanRet, libVars, probeVars, auxVars>>

\* ScannerConfig::load() in scan_groups_async: an error is mapped to
\* ScanError::Internal, else the configuration lists n roots.
LoadConfig(c, loaded) ==
  /\ spc[c] = "load"
  /\ IF IsSome(loaded)
     THEN /\ cfg' = [cfg EXCEPT ![c] = [roots |-> Unwrap(loaded)]]
          /\ root' = [root EXCEPT ![c] = 1]
          /\ spc' = [spc EXCEPT ![c] = "walk"]
          /\ UNCHANGED scanRet
     ELSE /\ spc' = [spc EXCEPT ![c] = "returned"]
          /\ scanRet' = [scanRet EXCEPT ![c] = ErrScanRet("Internal")]
          /\ UNCHANGED <<cfg, root>>
  /\ UNCHANGED <<device_cache, holder, poisoned, benchRuns, known_speeds, seen, entry, all_files,
                 handles, libVars, probeVars, auxVars>>

\* entries.next() yields an entry of the current root.
WalkEntry(c, e) ==
  /\ spc[c] = "walk"
  /\ root[c] <= cfg[c].roots
  /\ seen[c] < MaxEntries
  /\ seen' = [seen EXCEPT ![c] = @ + 1]
  /\ entry' = [entry EXCEPT ![c] = e]
  /\ all_files' = [all_files EXCEPT ![c] = PushEntry(@, e)]
  /\ UNCHANGED <<device_cache, holder, poisoned, benchRuns, spc, known_speeds, cfg, root, handles,
                 scanRet, libVars, probeVars, auxVars>>

\* entries.next() yields None: the for loop moves to the next root.
RootDone(c) ==
  /\ spc[c] = "walk"
  /\ root[c] <= cfg[c].roots
  /\ root' = [root EXCEPT ![c] = @ + 1]
  /\ UNCHANGED <<device_cache, holder, poisoned, benchRuns, spc, known_speeds, cfg, seen, entry,
                 all_files, handles, scanRet, libVars, probeVars, auxVars>>

\* The roots are drained and scan_music_with_cfg returns all_files, its other
\* locals gone: bucket by device and spawn one task per bucket.
Group(c, order) ==
  /\ spc[c] = "walk"
  /\ root[c] > cfg[c].roots
  /\ handles' = [handles EXCEPT ![c] =
                   [k \in DOMAIN order |-> SpawnHandle(by_device(all_files[c], order)[k], known_speeds[c])]]
  /\ spc' = [spc EXCEPT ![c] = "bench"]
  /\ cfg' = [cfg EXCEPT ![c] = [roots |-> 0]]
  /\ root' = [root EXCEPT ![c] = 0]
  /\ seen' = [seen EXCEPT ![c] = 0]
  /\ entry' = [entry EXCEPT ![c] = NoEntry]
  /\ UNCHANGED <<device_cache, holder, poisoned, benchRuns, known_speeds, all_files, scanRet, libVars, probeVars, auxVars>>

\* The spawn_blocking task of bucket k runs the benchmark on its first file.
Bench(c, k, run) ==
  /\ spc[c] = "bench"
  /\ ~handles[c][k].done
  /\ handles' = [handles EXCEPT ![c][k].bw = bw_opt(measure_device_throughput(run)),
                                ![c][k].done = TRUE,
                                ![c][k].run = run]
  /\ benchRuns' = [benchRuns EXCEPT ![handles[c][k].id] = @ + 1]
  /\ UNCHANGED <<device_cache, holder, poisoned, spc, known_speeds, cfg, root, seen, entry, all_files,
                 scanRet, libVars, probeVars, auxVars>>

\* Every task is joined; device_cache.lock() at the update step. When the
\* mutex is poisoned the if-let does not match and the groups are returned.
LockUpdate(c) ==
  /\ spc[c] = "bench"
  /\ \A k \in DOMAIN handles[c] : handles[c][k].done
  /\ holder = None
  /\ IF poisoned
     THEN /\ spc' = [spc EXCEPT ![c] = "returned"]
          /\ scanRet' = [scanRet EXCEPT ![c] = OkScanRet(JoinedGroups(handles[c]))]
          /\ UNCHANGED holder
     ELSE /\ spc' = [spc EXCEPT ![c] = "updLocked"]
          /\ holder' = Some(c)
          /\ UNCHANGED scanRet
  /\ UNCHANGED <<device_cache, poisoned, benchRuns, known_speeds, cfg, root, seen, entry, all_files,
                 handles, libVars, probeVars, auxVars>>

\* The inserts under the guard, the guard dropped, the groups mapped and returned.
Update(c) ==
  /\ spc[c] = "updLocked"
  /\ device_cache' = MergeSpeeds(device_cache, JoinedGroups(handles[c]))
  /\ holder' = None
  /\ spc' = [spc EXCEPT ![c] = "returned"]
  /\ scanRet' = [scanRet EXCEPT ![c] = OkScanRet(JoinedGroups(handles[c]))]
  /\ UNCHANGED <<poisoned, benchRuns, known_speeds, cfg, root, seen, entry, all_files, handles,
                 libVars, probeVars, auxVars>>

\* A panic while the guard is held (clone and insert allocate): the unwinding
\* drops the guard and poisons the mutex; the call never returns.
Panic(c) ==
  /\ holder = Some(c)
  /\ spc[c] \in {"snapLocked", "updLocked"}
  /\ poisoned' = TRUE
  /\ holder' = None
  /\ spc' = [spc EXCEPT ![c] = "panicked"]
  /\ UNCHANGED <<device_cache, benchRuns, known_speeds, cfg, root, seen, entry, all_files, handles,
                 scanRet, libVars, probeVars, auxVars>>

\* The steps of the calls of `callers`, over trees whose root r yields the
\* entries ents[r], configurations `loads` and benchmark runs `runs`.
ScanRun(callers, ents, loads, runs) ==
  \/ \E c \in callers : LockSnapshot(c)
  \/ \E c \in callers : CloneSnapshot(c)
  \/ \E c \in callers, l \in loads : LoadConfig(c, l)
  \/ \E c \in callers : \E r \in DOMAIN ents : \E e \in ents[r] : r = root[c] /\ WalkEntry(c, e)
  \/ \E c \in callers : RootDone(c)
  \/ \E c \in callers : \E o \in Orders(DeviceIds(all_files[c])) : Group(c, o)
  \/ \E c \in callers : \E k \in DOMAIN handles[c], r \in runs : Bench(c, k, r)
  \/ \E c \in callers : LockUpdate(c)
  \/ \E c \in callers : Update(c)
  \/ \E c \in callers : Panic(c)

\* ScannerConfig::load(): an error, or a configuration of 0..MaxRoots roots.
ConfigLoads == {None} \cup { Some(n) : n \in 0..MaxRoots }

\* One call over any tree.
NextScan == ScanRun({1}, [r \in 1..MaxRoots |-> WalkerEntries(r)], ConfigLoads, BenchRuns)

ScanSpec == Init /\ [][NextScan]_vars

\* Overlapping calls over one root of a healthy tree on one device.
NextCache == ScanRun(Callers, [r \in 1..MaxRoots |-> PlainEntries(r)], {Some(1)}, MeasuredBenchRuns)

CacheSpec == Init /\ [][NextCache]_vars

\* ------------------------------------------------ one file through the probe
scanAndLib == <<pc, scanRes, ret, groups, gi, concurrency, st, cur, storeGhost, scanVars, auxVars>>

\* The file the probe is followed for: the only file of the only group.
ProbeFile == <<1, 1>>

\* extract_from_path is called for a file.
ProbeStart(in) ==
  /\ probe.stage = "none"
  /\ probe' = [probe EXCEPT !.stage = "probing", !.input = in]
  /\ UNCHANGED <<scanAndLib, events, db, clock, calls, scored>>

\* The spawn_blocking task running extract_sync finishes.
ExtractDone ==
  /\ probe.stage = "probing"
  /\ probe' = [probe EXCEPT !.stage = "extracted", !.out = extract_sync(probe.input, 1)]
  /\ UNCHANGED <<scanAndLib, events, db, clock, calls, scored>>

\* The rest of the file's async block in import_full.
ProbePersist(songOk, relOk) ==
  /\ probe.stage = "extracted"
  /\ LET out == FilePipeline(db, clock, probe.out.ok, probe.out.value, songOk, relOk) IN
       /\ db' = out.db
       /\ clock' = out.clock
       /\ calls' = calls + out.calls
       /\ probe' = [probe EXCEPT !.stage = "persisted", !.res = out.res]
  /\ UNCHANGED <<scanAndLib, events, scored>>

\* The stream yields the file's result and the reporter is told.
ProbeReport ==
  /\ probe.stage = "persisted"
  /\ events' = Append(events, IF probe.res.ok THEN SuccessEvent(ProbeFile)
                              ELSE ErrorEvent(ProbeFile, probe.res.msg))
  /\ probe' = [probe EXCEPT !.stage = "reported"]
  /\ UNCHANGED <<scanAndLib, db, clock, calls, scored>>

NextProbe ==
  \/ \E in \in ProbeInputs : ProbeStart(in)
  \/ ExtractDone
  \/ \E songOk \in BOOLEAN, relOk \in BOOLEAN : ProbePersist(songOk, relOk)
  \/ ProbeReport

ProbeSpec == Init /\ [][NextProbe]_vars

\* ------------------------------------------------------------ scoring calls
\* Each behaviour makes one scoring call.
\* score_outcome on one outcome.
ScoreOutcome(o) ==
  /\ scored.fn = "none"
  /\ scored' = [fn |-> "score_outcome", outcome |-> o, f2 |-> o.freq,
                s1 |-> score_outcome(o).quality_score, s2 |-> score_outcome(o).quality_score]
  /\ UNCHANGED <<scanAndLib, events, db, clock, calls, probe>>

\* score_outcome on two detected cutoffs.
ScoreOutcomeCutoffs(f1, f2) ==
  /\ scored.fn = "none"
  /\ scored' = [fn |-> "score_outcome cutoffs", outcome |-> CutoffDetected(f1), f2 |-> f2,
                s1 |-> score_outcome(CutoffDetected(f1)).quality_score,
                s2 |-> score_outcome(CutoffDetected(f2)).quality_score]
  /\ UNCHANGED <<scanAndLib, events, db, clock, calls, probe>>

\* score_for_cutoff of the default configuration on two detected cutoffs.
ScoreForCutoffs(f1, f2) ==
  /\ scored.fn = "none"
  /\ scored' = [fn |-> "score_for_cutoff", outcome |-> CutoffDetected(f1), f2 |-> f2,
                s1 |-> score_for_cutoff(DefaultScoringConfig, f1),
                s2 |-> score_for_cutoff(DefaultScoringConfig, f2)]
  /\ UNCHANGED <<scanAndLib, events, db, clock, calls, probe>>

\* score_for_full_band of the default configuration.
ScoreForFullBand(f) ==
  /\ scored.fn = "none"
  /\ scored' = [fn |-> "score_for_full_band", outcome |-> NoCutoffDetected(f), f2 |-> f,
                s1 |-> score_for_full_band(DefaultScoringConfig, f),
                s2 |-> score_for_full_band(DefaultScoringConfig, f)]
  /\ UNCHANGED <<scanAndLib, events, db, clock, calls, probe>>

NextScore ==
  \/ \E o \in Outcomes : ScoreOutcome(o)
  \/ \E f1 \in Freqs, f2 \in Freqs : ScoreOutcomeCutoffs(f1, f2)
  \/ \E f1 \in Freqs, f2 \in Freqs : ScoreForCutoffs(f1, f2)
  \/ \E f \in Freqs : ScoreForFullBand(f)

ScoreSpec == Init /\ [][NextScore]_vars

\* apply_cap of the default configuration on one score and two bitrates.
ApplyCap(score, b1, b2) ==
  /\ capped.fn = "none"
  /\ capped' = [NoCapped EXCEPT !.fn = "apply_cap", !.score = score, !.b1 = b1, !.b2 = b2,
                                !.s1 = apply_cap(DefaultBitrateSafetyConfig, b1, score).score,
                                !.s2 = apply_cap(DefaultBitrateSafetyConfig, b2, score).score,
                                !.note = apply_cap(DefaultBitrateSafetyConfig, b1, score).note]
  /\ UNCHANGED <<pc, scanRes, ret, groups, gi, concurrency, st, cur, storeGhost, scanVars,
                 events, db, clock, calls, probeVars, paths, again, tagged, walk, conf>>

\* build_report on the final score of one outcome at one bitrate.
BuildReport(o, b) ==
  /\ capped.fn = "none"
  /\ capped' = [NoCapped EXCEPT !.fn = "build_report", !.outcome = o, !.b1 = b, !.b2 = b,
                                !.score = score_outcome(o).quality_score,
                                !.s1 = final_score(o, b).score,
                                !.s2 = final_score(o, b).score,
                                !.note = final_score(o, b).note,
                                !.level = QualityLevel(o, final_score(o, b).score)]
  /\ UNCHANGED <<pc, scanRes, ret, groups, gi, concurrency, st, cur, storeGhost, scanVars,
                 events, db, clock, calls, probeVars, paths, again, tagged, walk, conf>>

NextCap ==
  \/ \E score \in Scores, b1 \in Bitrates, b2 \in Bitrates : ApplyCap(score, b1, b2)
  \/ \E o \in Outcomes, b \in Bitrates : BuildReport(o, b)

CapSpec == Init /\ [][NextCap]_vars

\* ------------------------------------------------------- GamusPaths::new
pathsRest == <<pc, scanRes, ret, groups, gi, concurrency, st, cur, storeGhost, scanVars,
               events, db, clock, calls, probeVars, capped, again, tagged, walk, conf>>

\* A process calls GamusPaths::new with env in its environment, proj what the
\* platform answers and fs the directories on disk.
PathsCall(env, proj, fs) ==
  /\ paths.stage = "idle"
  /\ paths' = [paths EXCEPT !.stage = "resolve", !.env = env, !.proj = proj, !.fs = fs]
  /\ UNCHANGED pathsRest

\* Lines 30-42: the override when env::var is Ok, the platform directories
\* otherwise, ConfigError::Directories when there are none.
PathsResolve ==
  /\ paths.stage = "resolve"
  /\ paths' =
       IF IsSome(env_var(paths.env))
       THEN LET base == Unwrap(env_var(paths.env))
            IN [paths EXCEPT !.stage = "create config", !.base_dir = base,
                             !.config_dir = Append(base, "config"),
                             !.data_dir = Append(base, "data"), !.cache_dir = Append(base, "cache")]
       ELSE IF IsSome(paths.proj)
       THEN LET proj_dirs == Unwrap(paths.proj)
            IN [paths EXCEPT !.stage = "create config", !.base_dir = proj_dirs.config_dir,
                             !.config_dir = proj_dirs.config_dir, !.data_dir = proj_dirs.data_dir,
                             !.cache_dir = proj_dirs.cache_dir]
       ELSE [paths EXCEPT !.stage = "done", !.res = "Err(Directories)"]
  /\ UNCHANGED pathsRest

\* Lines 44-46: one create_dir_all, `?` returning its error.
PathsCreate(ok) ==
  /\ paths.stage \in {"create config", "create data", "create cache"}
  /\ LET dir == IF paths.stage = "create config" THEN paths.config_dir
                ELSE IF paths.stage = "create data" THEN paths.data_dir
                ELSE paths.cache_dir
         next == IF paths.stage = "create config" THEN "create data"
                 ELSE IF paths.stage = "create data" THEN "create cache"
                 ELSE "done"
     IN paths' = IF ok
                 THEN [paths EXCEPT !.fs = create_dir_all(@, dir, TRUE), !.stage = next,
                                    !.res = IF next = "done" THEN "Ok" ELSE @]
                 ELSE [paths EXCEPT !.stage = "done", !.res = "Err(Io)"]
  /\ UNCHANGED pathsRest

NextPaths ==
  \/ \E env \in Envs, proj \in ProjectDirsResults, fs \in {{}, {<<>>, <<"tmp">>}} :
       PathsCall(env, proj, fs)
  \/ PathsResolve
  \/ \E ok \in BOOLEAN : PathsCreate(ok)

PathsSpec == Init /\ [][NextPaths]_vars

\* ------------------------------------------------- import_full, run again
\* import_full returned Ok and is called once more on the same store, with
\* the same reporter. Every id the first run minted is taken.
ImportAgain ==
  /\ pc = "returned" /\ ret = "Ok"
  /\ again.runs = 0
  /\ again' = [runs |-> 1, minted |-> TotalFiles(groups), groups |-> groups, db |-> db, events |-> events]
  /\ pc' = "scan"
  /\ scanRes' = "none"
  /\ ret' = "none"
  /\ groups' = <<>>
  /\ gi' = 0
  /\ UNCHANGED <<concurrency, st, cur, events, db, clock, calls, storeGhost, scanVars, probeVars, capped, paths, tagged, walk, conf>>

\* Two runs over an unchanged library: the second scan returns what the first
\* returned. Every probe and every save succeeds.
NextAgain ==
  \/ \E gs \in ScanResults : (again.runs = 1 => gs = again.groups) /\ ScanOk(gs)
  \/ Run({TRUE}, {TRUE})
  \/ ImportAgain

AgainSpec == Init /\ [][NextAgain]_vars

\* ------------------------------------------------------- find_tag_value
\* One lookup, made with each of the two implementations.
FindTagValue(tags, keys) ==
  /\ ~tagged.called
  /\ tagged' = [called |-> TRUE, tags |-> tags, keys |-> keys,
                tag_keys |-> find_tag_value(tags, keys), mapping |-> find_tag_value_mapping(tags, keys)]
  /\ UNCHANGED <<pc, scanRes, ret, groups, gi, concurrency, st, cur, storeGhost, scanVars,
                 events, db, clock, calls, probeVars, capped, paths, again, walk, conf>>

NextTags == \E tags \in TagMaps, keys \in AliasLists : FindTagValue(tags, keys)

TagSpec == Init /\ [][NextTags]_vars

\* ----------------------------------------------------------- walk_filtered
walkRest == <<pc, scanRes, ret, groups, gi, concurrency, st, cur, storeGhost, scanVars,
              events, db, clock, calls, probeVars, capped, paths, again, tagged, conf>>

\* scan_music_with_cfg-style consumer: for root in roots, walk_filtered(root, cfg, filter).
WalkStart(fs, walk_cfg, roots) ==
  /\ walk.stage = "idle"
  /\ walk' = [walk EXCEPT !.stage = "walking", !.fs = fs, !.cfg = walk_cfg, !.roots = roots, !.ri = 1,
                          !.stack = <<RootFrame(roots[1])>>]
  /\ UNCHANGED walkRest

\* Frame::Pending on top: popped, skipped when too deep or already visited,
\* opened otherwise; a failing metadata or read_dir yields an Err item.
WalkPending(metaOk, readOk) ==
  /\ walk.stage = "walking" /\ Len(walk.stack) > 0
  /\ walk.stack[Len(walk.stack)].kind = "Pending"
  /\ LET top == walk.stack[Len(walk.stack)]
         rest == SubSeq(walk.stack, 1, Len(walk.stack) - 1)
         file_id == IF ~walk.cfg.dedup_dirs THEN None
                    ELSE IF IsSome(top.id_hint) THEN top.id_hint
                    ELSE Some(top.dir)
         seen_now == IF IsSome(file_id) THEN walk.visited \cup {Unwrap(file_id)} ELSE walk.visited
     IN walk' =
          IF top.depth > walk.cfg.max_depth THEN [walk EXCEPT !.stack = rest]
          ELSE IF walk.cfg.dedup_dirs /\ ~IsSome(top.id_hint) /\ ~metaOk
            THEN [walk EXCEPT !.stack = rest]
          ELSE IF dedup_skip(walk.cfg, walk.visited, file_id) THEN [walk EXCEPT !.stack = rest]
          ELSE IF ~readOk THEN [walk EXCEPT !.stack = rest, !.visited = seen_now]
          ELSE [walk EXCEPT !.stack = Append(rest, [kind |-> "Open", path |-> top.path, dir |-> top.dir,
                                                    depth |-> top.depth, pos |-> 1]),
                            !.visited = seen_now,
                            !.opened = Append(@, [dir |-> top.dir, depth |-> top.depth])]
  /\ UNCHANGED walkRest

\* Frame::Open on top and next_entry returns Ok(Some(entry)): the entry is
\* filtered, a directory or a followed link to one is pushed as Pending, and
\* the entry is yielded unless ignored. The consumer keeps the files.
WalkOpenEntry(ftOk, filtering, metaOk) ==
  /\ walk.stage = "walking" /\ Len(walk.stack) > 0
  /\ walk.stack[Len(walk.stack)].kind = "Open"
  /\ walk.stack[Len(walk.stack)].pos <= Len(walk.fs[walk.stack[Len(walk.stack)].dir])
  /\ LET top == walk.stack[Len(walk.stack)]
         e == walk.fs[top.dir][top.pos]
         read == [walk.stack EXCEPT ![Len(walk.stack)].pos = @ + 1]
         path == Append(top.path, e.name)
         entry_depth == top.depth + 1
         recurse == filtering # "IgnoreDir" /\ entry_depth <= walk.cfg.max_depth
         pending_frame ==
           IF recurse /\ e.kind = "dir"
           THEN Some([kind |-> "Pending", path |-> path, dir |-> e.target, depth |-> entry_depth,
                      id_hint |-> None])
           ELSE IF recurse /\ e.kind = "symlink" /\ walk.cfg.follow_symlinks /\ metaOk
           THEN Some([kind |-> "Pending", path |-> path, dir |-> e.target, depth |-> entry_depth,
                      id_hint |-> IF walk.cfg.dedup_dirs THEN Some(e.target) ELSE None])
           ELSE None
     IN walk' =
          IF ~ftOk THEN [walk EXCEPT !.stack = read]
          ELSE [walk EXCEPT !.stack = read \o pending_frame,
                            !.all_files = IF filtering = "Continue" /\ e.kind = "file"
                                          THEN Append(@, path) ELSE @]
  /\ UNCHANGED walkRest

\* Frame::Open on top and next_entry returns Ok(None), the directory being
\* read to its end, or Err: the frame is popped, an Err is yielded as an item.
WalkOpenDone(ok) ==
  /\ walk.stage = "walking" /\ Len(walk.stack) > 0
  /\ walk.stack[Len(walk.stack)].kind = "Open"
  /\ ok => walk.stack[Len(walk.stack)].pos > Len(walk.fs[walk.stack[Len(walk.stack)].dir])
  /\ walk' = [walk EXCEPT !.stack = SubSeq(@, 1, Len(@) - 1)]
  /\ UNCHANGED walkRest

\* stack.last_mut()? is None: the stream ends, the while-let loop ends and the
\* for loop takes the next root with a new stream, or returns all_files.
WalkEnd ==
  /\ walk.stage = "walking" /\ walk.stack = <<>>
  /\ walk' = IF walk.ri < Len(walk.roots)
             THEN [walk EXCEPT !.ri = @ + 1, !.stack = <<RootFrame(walk.roots[walk.ri + 1])>>,
                               !.visited = {}, !.opened = <<>>]
             ELSE [walk EXCEPT !.stage = "done"]
  /\ UNCHANGED walkRest

\* The loop over the given roots, with the given configurations of the walker.
WalkRun(walk_cfgs, rootLists) ==
  \/ \E fs \in FileSystems, walk_cfg \in walk_cfgs, roots \in rootLists : WalkStart(fs, walk_cfg, roots)
  \/ \E metaOk \in BOOLEAN, readOk \in BOOLEAN : WalkPending(metaOk, readOk)
  \/ \E ftOk \in BOOLEAN, filtering \in {"Continue", "Ignore", "IgnoreDir"}, metaOk \in BOOLEAN :
       WalkOpenEntry(ftOk, filtering, metaOk)
  \/ \E ok \in BOOLEAN : WalkOpenDone(ok)
  \/ WalkEnd

\* One root, every WalkConfig.
NextWalk == WalkRun(WalkConfigs, { roots \in RootLists : Len(roots) = 1 })

WalkSpec == Init /\ [][NextWalk]_vars

\* The consumer polls the stream until it ends.
WalkLive == WalkSpec /\ WF_vars(NextWalk)

\* scan_music_with_cfg: its WalkConfig, any list of roots.
NextRoots ==
  WalkRun({ walk_cfg \in WalkConfigs : ~walk_cfg.follow_symlinks /\ walk_cfg.dedup_dirs }, RootLists)

RootsSpec == Init /\ [][NextRoots]_vars

\* ------------------------------------------- ScannerConfig::load and save
confRest == <<pc, scanRes, ret, groups, gi, concurrency, st, cur, storeGhost, scanVars,
              events, db, clock, calls, probeVars, capped, paths, again, tagged, walk>>

\* ScannerConfig::load, line 53: the section is read; save_section is next.
\* The later load starts once the command's save has returned Ok.
ConfLoad(r) ==
  /\ r \in {"scan", "later"}
  /\ conf.call[r].at = "idle"
  /\ r = "later" => IsSome(conf.saved)
  /\ conf' = [conf EXCEPT !.call[r].at = "read", !.call[r].cfg = load_section_with_default(conf.file)]
  /\ UNCHANGED confRest

\* save_scanner_config(input): cfg.save() calls save_section.
ConfSave(input) ==
  /\ conf.call["command"].at = "idle"
  /\ conf' = [conf EXCEPT !.call["command"].at = "read", !.call["command"].cfg = input]
  /\ UNCHANGED confRest

\* save_section, lines 93-116: the whole document is read and the section
\* replaced in it; of the document only [scanner] is kept here.
ConfRead(r) ==
  /\ conf.call[r].at = "read"
  /\ conf' = [conf EXCEPT !.call[r].at = "write"]
  /\ UNCHANGED confRest

\* save_section, lines 119-125: gamus.tmp is created, written and synced;
\* every call uses the same path.
ConfWriteTmp(r) ==
  /\ conf.call[r].at = "write"
  /\ conf' = [conf EXCEPT !.call[r].at = "rename", !.tmp = Some(conf.call[r].cfg)]
  /\ UNCHANGED confRest

\* save_section, line 127: rename of gamus.tmp over gamus.toml, an error
\* when another call has renamed it away; then the call returns.
ConfRename(r) ==
  /\ conf.call[r].at = "rename"
  /\ conf' = IF IsSome(conf.tmp)
             THEN [conf EXCEPT !.file = Unwrap(conf.tmp), !.tmp = None,
                               !.call[r].at = "returned", !.call[r].res = "Ok",
                               !.saved = IF r = "command" THEN Some(conf.call[r].cfg) ELSE @]
             ELSE [conf EXCEPT !.call[r].at = "returned", !.call[r].res = "Err"]
  /\ UNCHANGED confRest

NextConf ==
  \/ \E r \in {"scan", "later"} : ConfLoad(r)
  \/ \E input \in {"new", "newer"} : ConfSave(input)
  \/ \E r \in DOMAIN conf.call : ConfRead(r)
  \/ \E r \in DOMAIN conf.call : ConfWriteTmp(r)
  \/ \E r \in DOMAIN conf.call : ConfRename(r)

ConfSpec == Init /\ [][NextConf]_vars

\* ================================================================ properties
\* Every file the scan listed, as <<group, position>>.
AllFiles == UNION { { <<g, i>> : i \in 1..Len(groups[g].files) } : g \in 1..Len(groups) }

Starts == { n \in 1..Len(events) : events[n].kind = "start" }
Finishes == { n \in 1..Len(events) : events[n].kind = "finish" }
PerFile == { n \in 1..Len(events) : events[n].kind \in {"success", "error"} }
EventsOf(f) == { n \in PerFile : events[n].file = f }
Errors == { n \in PerFile : events[n].kind = "error" }
Successes == { n \in PerFile : events[n].kind = "success" }

\* C1: when the scan succeeds and lists N files, start is emitted once with
\* total = N before any per-file event, the on_success and on_error events
\* number exactly N when the import returns, and finish is emitted once,
\* after all of them.
C1_StartCountFinish ==
  /\ Cardinality(Starts) <= 1
  /\ Cardinality(Finishes) <= 1
  /\ \A n \in Starts : n = 1 /\ events[n].total = Cardinality(AllFiles)
  /\ PerFile # {} => 1 \in Starts
  /\ \A n \in Finishes : n = Len(events) /\ 1 \in Starts /\ Cardinality(PerFile) = Cardinality(AllFiles)
  /\ Cardinality(PerFile) <= Cardinality(AllFiles)
  /\ (pc = "returned" /\ scanRes = "Ok") =>
       /\ Starts = {1}
       /\ Finishes = {Len(events)}
       /\ Cardinality(PerFile) = Cardinality(AllFiles)

C1_Witness ==
  /\ pc = "returned"
  /\ scanRes = "Ok"
  /\ Len(groups) = 2
  /\ Cardinality(AllFiles) = 3
  /\ Successes # {}
  /\ Errors # {}

\* C2: each file of the scan receives exactly one of on_success and on_error,
\* never both and never neither once the import has returned, and that event
\* comes after start(total) and before finish().
C2_OneEventPerFile ==
  /\ \A n \in PerFile : events[n].file \in AllFiles
  /\ \A f \in AllFiles :
       /\ Cardinality(EventsOf(f)) <= 1
       /\ (pc = "returned" /\ scanRes = "Ok") => Cardinality(EventsOf(f)) = 1
       /\ \A n \in EventsOf(f) :
            /\ \E m \in Starts : m < n
            /\ \A m \in Finishes : n < m

C2_Witness ==
  /\ pc = "returned"
  /\ \E f \in AllFiles, h \in AllFiles :
       /\ f # h
       /\ \E n \in EventsOf(f) : events[n].kind = "success"
       /\ \E n \in EventsOf(h) : events[n].kind = "error"

\* What the probe mints for a file.
SongIdOf(f) == MintId(again.minted, groups, f[1], f[2])
ReleaseIdOf(f) == MintId(again.minted, groups, f[1], f[2])
TrackIdOf(f) == MintId(again.minted, groups, f[1], f[2])

\* C3: a file whose probe or save failed (its release never reached the
\* store) is reported through on_error, and the failure does not abort the
\* batch: the import still returns Ok after one event for every file of
\* the same group and of the later groups, with finish() last.
C3_ErrorsDoNotAbort ==
  /\ \A n \in PerFile :
       (events[n].kind = "error") <=> (find_release(db, ReleaseIdOf(events[n].file)) = None)
  /\ (pc = "report" /\ ~cur.ok) => find_release(db, ReleaseIdOf(cur.file)) = None
  /\ (Errors # {} /\ pc \in {"finish", "returned"}) =>
       \A f \in AllFiles : EventsOf(f) # {}
  /\ (Errors # {} /\ pc = "returned") =>
       /\ ret = "Ok"
       /\ Finishes = {Len(events)}

C3_Witness ==
  /\ pc = "returned"
  /\ Len(groups) = 2
  /\ Len(groups[1].files) = 2
  /\ Len(events) = 5
  /\ events[2].kind = "error"
  /\ events[3].kind = "success" /\ events[3].file[1] = 1
  /\ events[4].kind = "success" /\ events[4].file[1] = 2
  /\ events[5].kind = "finish"

\* C4: import_full returns Err exactly when the scan fails, and returns Ok
\* whatever number of files fail in the probe or in the store.
C4_OkIffScanOk ==
  /\ (ret = "Err") <=> (scanRes = "Err")
  /\ (ret = "Ok") => (scanRes = "Ok")
  /\ (pc = "returned" /\ scanRes = "Ok") => ret = "Ok"
  /\ (scanRes = "Err") => (pc = "returned" /\ events = <<>>)

C4_Witness ==
  /\ ret = "Ok"
  /\ \E n \in Errors : events[n].msg = "Metadata error"
  /\ \E n \in Errors : events[n].msg = "Repo song error"
  /\ \E n \in Errors : events[n].msg = "Repo release error"

\* Files of the current group whose probe has started.
Started == { i \in DOMAIN st : st[i] \in {"probing", "probedOk", "probedErr", "done"} }

\* C5: no file of a later group starts its probe before every file of every
\* earlier group has had its on_success or on_error emitted; the events of
\* the groups come in group order.
C5_GroupsSequential ==
  /\ (pc \in {"consume", "report"} /\ (Started # {} \/ InProgress(st) # {})) =>
       \A f \in AllFiles : f[1] < gi => EventsOf(f) # {}
  /\ \A m \in PerFile, n \in PerFile :
       events[m].file[1] < events[n].file[1] => m < n

C5_Witness ==
  /\ pc = "consume"
  /\ gi = 2
  /\ Len(groups[1].files) = 2
  /\ \E i \in DOMAIN st : st[i] = "probing"

\* The buffer depth the bandwidth tiers give.
TierDepth(bw) ==
  CASE bw = None -> 8
    [] bw # None /\ Unwrap(bw) > 500 -> 50
    [] bw # None /\ Unwrap(bw) > 100 /\ Unwrap(bw) <= 500 -> 20
    [] bw # None /\ Unwrap(bw) <= 100 -> 4

\* C6: while a group is processed, the files whose pipeline has started and
\* not completed (and those the buffer already holds) number at most k, with
\* k = 50 above 500 MB/s, 20 above 100, 4 when known and at most 100, 8 when
\* the bandwidth is None.
C6_ConcurrencyCeiling ==
  pc \in {"consume", "report"} =>
    /\ concurrency = TierDepth(groups[gi].device.bandwidth_mb_s)
    /\ Cardinality(InProgress(st)) <= TierDepth(groups[gi].device.bandwidth_mb_s)

C6_Witness ==
  /\ pc = "consume"
  /\ groups[gi].device.bandwidth_mb_s = Some(100)
  /\ Cardinality({ i \in DOMAIN st : st[i] \in {"probing", "probedOk", "probedErr"} }) = 4
  /\ Pending(st) # {}

\* C7: for every file reported through on_success, its song, its release and
\* its track have been persisted before the event and can each be found in
\* the store.
C7_SuccessMeansAllPersisted ==
  \A n \in Successes :
    LET f == events[n].file IN
    /\ find_song(db, SongIdOf(f)) # None
    /\ find_release(db, ReleaseIdOf(f)) # None
    /\ TrackRowIndex(db, TrackIdOf(f)) # 0

\* The step that finishes a file whose probe failed.
C8_ProbeFailureStep ==
  \A i \in DOMAIN st :
    (st[i] = "probedErr" /\ i \in DOMAIN st' /\ st'[i] # "probedErr") =>
      /\ db' = db
      /\ clock' = clock
      /\ calls' = calls
      /\ pc' = "report"
      /\ cur' = [ok |-> FALSE, file |-> <<gi, i>>, msg |-> "Metadata error"]

\* The step that reports a failed result.
C8_ErrorReportedStep ==
  (pc = "report" /\ ~cur.ok) =>
    /\ pc' # "report" => events' # events
    /\ events' # events => events' = Append(events, ErrorEvent(cur.file, cur.msg))

\* C8: when the probe fails for a file, the step that finishes the file makes
\* no save_song or save_release call, leaves the store as it was, and hands
\* the file to on_error, which is then emitted for it.
C8_ProbeFailureWritesNothing == [][C8_ProbeFailureStep /\ C8_ErrorReportedStep]_vars

C8_Witness ==
  /\ \E n \in Errors :
       /\ events[n].msg = "Metadata error"
       /\ find_song(db, SongIdOf(events[n].file)) = None
  /\ Len(db.songs) >= 1

Tables == {"artists", "songs", "releases"}

\* C9: from any store state, saving the same entity a second time leaves the
\* row count and the content of every row as the first save left them, for
\* save_artist, save_song and save_release.
C9_SaveIdempotent ==
  /\ \A a \in ArtistInputs :
       LET once == save_artist(db, clock, a, TRUE) IN
       save_artist(once.db, once.clock, a, TRUE).db = once.db
  /\ \A s \in SongInputs :
       LET once == save_song(db, clock, s, TRUE) IN
       save_song(once.db, once.clock, s, TRUE).db = once.db
  /\ \A r \in ReleaseInputs :
       LET once == save_release(db, clock, r, TRUE) IN
       save_release(once.db, once.clock, r, TRUE).db = once.db
  /\ (lastSave.ok /\ lastSave.repeat) => db = prevDb

C9_Witness ==
  /\ lastSave.ok
  /\ lastSave.repeat
  /\ Len(db[lastSave.table]) = 2
  /\ db = prevDb

RowsWithId(rows, id) == { i \in 1..Len(rows) : rows[i].id = IdToString(id) }

\* C10: every id saved identifies exactly one row of its table, find_x(id)
\* returns the entity with that id and the mutable columns of the latest
\* save with that id, and a save leaves the rows of the other ids, and the
\* other tables, as they were.
C10_IdIdentifiesOneRow ==
  /\ \A k \in DOMAIN latest :
       /\ Cardinality(RowsWithId(db[k[1]], k[2])) = 1
       /\ k[1] = "artists" =>
            /\ find_artist(db, k[2]) # None
            /\ Unwrap(find_artist(db, k[2])).id = k[2]
            /\ Unwrap(find_artist(db, k[2])).name = latest[k].name
            /\ Unwrap(find_artist(db, k[2])).bio = latest[k].bio
       /\ k[1] = "songs" =>
            /\ find_song(db, k[2]) # None
            /\ Unwrap(find_song(db, k[2])).id = k[2]
            /\ Unwrap(find_song(db, k[2])).title = latest[k].title
            /\ Unwrap(find_song(db, k[2])).acoustid = latest[k].acoustid
       /\ k[1] = "releases" =>
            /\ find_release(db, k[2]) # None
            /\ Unwrap(find_release(db, k[2])).id = k[2]
            /\ Unwrap(find_release(db, k[2])).title = latest[k].title
            /\ Unwrap(find_release(db, k[2])).release_date = latest[k].release_date
  /\ \A t \in Tables : Len(db[t]) = Cardinality({ k \in DOMAIN latest : k[1] = t })
  /\ lastSave.table # "none" =>
       \A t \in Tables : \A i \in 1..Len(prevDb[t]) :
         (t # lastSave.table \/ prevDb[t][i].id # IdToString(lastSave.entity.id)) =>
           (i <= Len(db[t]) /\ db[t][i] = prevDb[t][i])

C10_Witness ==
  /\ lastSave.ok
  /\ lastSave.table = "songs"
  /\ Len(db.songs) = 2
  /\ Len(prevDb.songs) = 2
  /\ \E i \in 1..2 :
       /\ db.songs[i].id = IdToString(lastSave.entity.id)
       /\ db.songs[i].title = "b"
       /\ prevDb.songs[i].title = "a"
       /\ db.songs[i].created_at = prevDb.songs[i].created_at

\* ------------------------------------------------------------- the scanner
Devices == DOMAIN benchRuns

\* C11: over any number of scan_library_files calls on one device cache,
\* overlapping ones included, the throughput benchmark runs at most once for
\* each device id.
C11_BenchmarkOncePerDevice == \A d \in Devices : benchRuns[d] <= 1

\* The guard is held only inside the snapshot block and the update block.
C12_GuardOnlyInBlocks ==
  \A c \in Callers :
    /\ holder = Some(c) => spc[c] \in {"snapLocked", "updLocked"}
    /\ spc[c] \in {"load", "walk", "bench"} => holder # Some(c)

\* A step that reads the cache into a snapshot or writes the cache is taken
\* by the call that holds the guard.
C12_CacheUnderGuard ==
  /\ \A c \in Callers :
       known_speeds'[c] # known_speeds[c] => holder = Some(c) /\ spc[c] = "snapLocked"
  /\ device_cache' # device_cache => \E c \in Callers : holder = Some(c) /\ spc[c] = "updLocked"

\* The walk, the stat and the benchmark are steps of a call that does not
\* hold the guard.
C12_NoIoUnderGuard ==
  \A c \in Callers :
    (seen'[c] # seen[c] \/ all_files'[c] # all_files[c] \/ handles'[c] # handles[c]
       \/ cfg'[c] # cfg[c]) => holder # Some(c)

\* C12: the device cache is read and written only by the call holding its
\* mutex, and the guard is released before the configuration load, the walk,
\* the per-file stat and the benchmark, and taken again only for the update.
C12_SnapshotThenUpdate ==
  []C12_GuardOnlyInBlocks /\ [][C12_CacheUnderGuard /\ C12_NoIoUnderGuard]_vars

\* One call has its benchmark still to run while another one holds the guard
\* for its update.
C12_Witness ==
  \E c, d \in Callers :
    /\ c # d
    /\ spc[c] = "updLocked" /\ holder = Some(c)
    /\ spc[d] = "bench" /\ \E k \in DOMAIN handles[d] : ~handles[d][k].done

\* C13: a call that finds the mutex poisoned, at the snapshot step or at the
\* update step, returns ScanError::Internal and not groups.
C13_PoisonSurfaces ==
  [][\A c \in Callers :
       (poisoned /\ spc[c] \in {"idle", "bench"} /\ spc'[c] \notin {"idle", "bench"}) =>
         (spc'[c] = "returned" /\ scanRet'[c] = ErrScanRet("Internal"))]_vars

\* How often a file is listed in a sequence of files.
Count(files, f) == Cardinality({ i \in 1..Len(files) : files[i] = f })

\* C14: the groups returned have pairwise distinct device ids, none is empty,
\* and every discovered file is in the group of its device id and in no other,
\* as often as it was discovered; so files of different roots on one device
\* share a group.
C14_PartitionByDevice ==
  \A c \in Callers :
    scanRet[c].status = "Ok" =>
      LET gs == scanRet[c].groups IN
      /\ \A g, h \in DOMAIN gs : gs[g].device.id = gs[h].device.id => g = h
      /\ \A g \in DOMAIN gs : Len(gs[g].files) > 0
      /\ \A g \in DOMAIN gs : \A i \in 1..Len(gs[g].files) :
           /\ dev_id(gs[g].files[i]) = gs[g].device.id
           /\ Count(all_files[c], gs[g].files[i]) = Count(gs[g].files, gs[g].files[i])
      /\ \A i \in 1..Len(all_files[c]) :
           \E g \in DOMAIN gs : Count(gs[g].files, all_files[c][i]) > 0

\* Two groups returned, one of them holding files of two roots.
C14_Witness ==
  \E c \in Callers :
    /\ scanRet[c].status = "Ok"
    /\ Len(scanRet[c].groups) = 2
    /\ \E g \in DOMAIN scanRet[c].groups :
         \E i, j \in 1..Len(scanRet[c].groups[g].files) :
           scanRet[c].groups[g].files[i].path.root # scanRet[c].groups[g].files[j].path.root

\* C15: files whose device id cannot be determined are all in the group of
\* the sentinel device, and that group is returned with bandwidth_mb_s = None.
C15_SentinelHasNoBandwidth ==
  \A c \in Callers :
    scanRet[c].status = "Ok" =>
      \A g \in DOMAIN scanRet[c].groups :
        LET grp == scanRet[c].groups[g] IN
        /\ (\E i \in 1..Len(grp.files) : ~grp.files[i].devOk) => grp.device.id = "UNKNOWN_DEVICE"
        /\ grp.device.id = "UNKNOWN_DEVICE" => grp.device.bandwidth_mb_s = None

\* C16: a benchmark that measures a zero-length duration gives throughput 0.0,
\* its group is returned with bandwidth_mb_s = None, and no speed is recorded
\* for the device in the cache.
C16_ZeroDurationGivesNone ==
  \A c \in Callers : \A k \in DOMAIN handles[c] :
    LET h == handles[c][k] IN
    (h.done /\ h.run.open /\ h.run.secs_ds = 0) =>
      /\ measure_device_throughput(h.run).mb_s_tenths = 0
      /\ h.bw = None
      /\ scanRet[c].status = "Ok" =>
           /\ scanRet[c].groups[k].device.bandwidth_mb_s = None
           /\ h.id \notin DOMAIN device_cache

\* One iteration over the stream: an entry that is a walker error, not an
\* audio file, or an audio file whose stat fails leaves the list as it was;
\* an audio file is appended; the loop goes on in the same root.
C17_EntryStep ==
  \A c \in Callers :
    seen'[c] = seen[c] + 1 =>
      /\ entry'[c].kind \in {"walkErr", "other", "statErr"} => all_files'[c] = all_files[c]
      /\ entry'[c].kind = "audio" =>
           all_files'[c] = Append(all_files[c], [path |-> entry'[c].path, devOk |-> entry'[c].devOk])
      /\ spc'[c] = "walk" /\ root'[c] = root[c] /\ cfg'[c] = cfg[c] /\ scanRet'[c] = NoScanRet

\* A call that has walked does not return an error, and returns every file
\* it listed.
C17_WalkedReturnsOk ==
  \A c \in Callers :
    /\ (spc[c] = "returned" /\ scanRet[c].status = "Err") => (all_files[c] = <<>> /\ handles[c] = <<>>)
    /\ scanRet[c].status = "Ok" =>
         Len(all_files[c]) = SumSeq([g \in DOMAIN scanRet[c].groups |-> Len(scanRet[c].groups[g].files)])

C18_SpectralFailureKeepsProbe ==
  (probe.stage \notin {"none", "probing"} /\ probe.input.fsOk /\ probe.input.openOk
     /\ IsSome(probe.input.analysis_config) /\ ~probe.input.analyzed.ok) =>
    /\ probe.out.ok
    /\ probe.out.value.song.id = 1
    /\ IsSome(probe.out.value.release)
    /\ IsSome(probe.out.value.track)
    /\ Unwrap(Unwrap(probe.out.value.track).analysis).quality = None
    /\ probe.stage \in {"persisted", "reported"} =>
         /\ calls >= 1
         /\ probe.res.msg # "Metadata error"
         /\ probe.res.ok <=> (find_song(db, 1) # None /\ find_release(db, 1) # None)
         /\ (Len(db.songs) = 1 /\ Len(db.releases) = 1) => probe.res.ok
    /\ probe.stage = "reported" =>
         events = <<IF probe.res.ok THEN SuccessEvent(ProbeFile)
                    ELSE ErrorEvent(ProbeFile, probe.res.msg)>>

\* The analyzer failed, both rows were saved and on_success was emitted.
C18_Witness ==
  /\ probe.stage = "reported"
  /\ ~probe.input.analyzed.ok /\ IsSome(probe.input.analysis_config)
  /\ events = <<SuccessEvent(ProbeFile)>>
  /\ find_song(db, 1) # None /\ find_release(db, 1) # None

\* C19: the quality score of every analysis outcome lies in [0.0, 10.0] (0 to
\* 100 tenths), and it is 0 when the outcome is Inconclusive.
C19_ScoreInRange ==
  scored.fn # "none" =>
    /\ 0 <= scored.s1 /\ scored.s1 <= 100
    /\ 0 <= scored.s2 /\ scored.s2 <= 100
    /\ scored.outcome.kind = "Inconclusive" => scored.s1 = 0

\* An inconclusive outcome was scored.
C19_Witness == scored.fn = "score_outcome" /\ scored.outcome.kind = "Inconclusive" /\ scored.s1 = 0

\* C20: under one configuration, the default table with its fallback score
\* included, of two detected cutoffs the higher one never scores less.
C20_CutoffMonotone ==
  (scored.fn \in {"score_outcome cutoffs", "score_for_cutoff"} /\ scored.outcome.freq <= scored.f2) =>
    scored.s1 <= scored.s2

\* C21 (as stated): for one pre-cap score and any two bitrates b1 <= b2, the
\* score capped at b1 is at most the score capped at b2.
C21_CapMonotone ==
  (capped.fn = "apply_cap" /\ capped.b1 <= capped.b2) => capped.s1 <= capped.s2

\* C21 (amended): for one pre-cap score and any two known bitrates
\* 0 < b1 <= b2, the score capped at b1 is at most the score capped at b2; a
\* bitrate that is not positive is not a known bitrate and leaves the score
\* as it is.
C21_CapMonotoneKnown ==
  (capped.fn = "apply_cap" /\ 0 < capped.b1 /\ capped.b1 <= capped.b2) => capped.s1 <= capped.s2

\* The lower of two known bitrates lowered the score, further than the higher.
C21_Witness ==
  /\ capped.fn = "apply_cap"
  /\ 0 < capped.b1 /\ capped.b1 < capped.b2
  /\ capped.s1 < capped.s2 /\ capped.s2 < capped.score

C22_BaseDirOverride ==
  (paths.res = "Ok" /\ paths.env.set) =>
    /\ paths.base_dir = paths.env.value
    /\ paths.config_dir = Append(paths.env.value, "config")
    /\ paths.data_dir = Append(paths.env.value, "data")
    /\ paths.cache_dir = Append(paths.env.value, "cache")
    /\ {paths.config_dir, paths.data_dir, paths.cache_dir} \subseteq paths.fs

\* C23: after import_full has run twice over the same N files, all ingested
\* successfully both times, the store holds 2N song rows and 2N release rows
\* with pairwise distinct ids, and the rows the first run left are still
\* there as it left them.
C23_ReimportDuplicates ==
  (again.runs = 1 /\ pc = "returned" /\ groups = again.groups /\ Errors = {}) =>
    LET N == TotalFiles(groups) IN
    /\ Cardinality(Successes) = 2 * N
    /\ Len(db.songs) = 2 * N /\ Len(db.releases) = 2 * N
    /\ \A i, j \in 1..(2 * N) :
         i # j => db.songs[i].id # db.songs[j].id /\ db.releases[i].id # db.releases[j].id
    /\ Len(again.db.songs) = N /\ Len(again.db.releases) = N
    /\ \A i \in 1..N : db.songs[i] = again.db.songs[i] /\ db.releases[i] = again.db.releases[i]

\* Three files on two devices were imported twice.
C23_Witness ==
  /\ again.runs = 1 /\ pc = "returned" /\ groups = again.groups /\ Errors = {}
  /\ Len(groups) = 2 /\ TotalFiles(groups) = 3
  /\ Len(db.songs) = 6 /\ Len(db.releases) = 6

\* C24: find_tag_value returns the trimmed value of the first alias, in the
\* listed order, whose value is not empty after trimming, None when there is
\* no such alias, and the implementations of tag_keys.rs and mapping.rs
\* return the same.
C24_FirstNonEmptyAlias ==
  tagged.called =>
    LET filled == { n \in 1..Len(tagged.keys) :
                      tagged.keys[n] \in DOMAIN tagged.tags /\ trim(tagged.tags[tagged.keys[n]]) # <<>> }
        expected == IF filled = {} THEN None
                    ELSE Some(trim(tagged.tags[tagged.keys[CHOOSE n \in filled : \A m \in filled : n <= m]]))
    IN /\ tagged.tag_keys = expected
       /\ tagged.mapping = expected

\* C26: no directory deeper than max_depth is opened and, with dedup_dirs,
\* no directory identity is opened twice by one stream; whatever the
\* directory structure and the WalkConfig, symbolic link cycles that are
\* followed included, every stream ends: the loop over the roots comes to
\* its end.
C26_OpenedWithinLimits ==
  /\ \A n \in 1..Len(walk.opened) : walk.opened[n].depth <= walk.cfg.max_depth
  /\ walk.cfg.dedup_dirs =>
       \A i, j \in 1..Len(walk.opened) : i # j => walk.opened[i].dir # walk.opened[j].dir

C26_WalkerTerminates == []C26_OpenedWithinLimits /\ <>(walk.stage = "done")

\* A walk that followed the link of /m to itself, without deduplication, down
\* to max_depth, has ended.
C26_Witness ==
  /\ walk.stage = "done"
  /\ walk.cfg.follow_symlinks /\ ~walk.cfg.dedup_dirs /\ walk.cfg.max_depth = MaxDepth
  /\ \E n \in 1..Len(walk.opened) : walk.opened[n] = [dir |-> 1, depth |-> MaxDepth]

\* C29: no path is listed twice in all_files, the files the scan hands to
\* the grouping, also when a root is nested in another or configured twice.
C29_PathListedOnce ==
  \A i, j \in 1..Len(walk.all_files) : i # j => walk.all_files[i] # walk.all_files[j]

\* C27: when scan_library_files fails, import_full returns the error having
\* emitted no event, neither start nor a per-file event nor finish, started
\* no probe and made no call to the store, whose tables are as before.
C27_ScanFailureDoesNothing ==
  (scanRes = "Err") =>
    /\ pc = "returned" /\ ret = "Err"
    /\ events = <<>>
    /\ st = <<>> /\ cur = NoResult
    /\ calls = 0 /\ clock = 0 /\ db = EmptyDb

C27_Witness == scanRes = "Err" /\ pc = "returned" /\ groups = <<>> /\ calls = 0

\* The per-file events whose error is save_release's.
ReleaseErrors == { n \in Errors : events[n].msg = "Repo release error" }

\* C28: a file whose save_song succeeded and whose save_release failed keeps
\* its song row in the store, without a release row, and has its on_error as
\* its only event; every file reported through on_success, later ones
\* included, has both its rows.
C28_NoRollback ==
  /\ \A n \in ReleaseErrors :
       /\ find_song(db, SongIdOf(events[n].file)) # None
       /\ find_release(db, ReleaseIdOf(events[n].file)) = None
       /\ EventsOf(events[n].file) = {n}
  /\ (pc = "report" /\ ~cur.ok /\ cur.msg = "Repo release error") =>
       /\ find_song(db, SongIdOf(cur.file)) # None
       /\ EventsOf(cur.file) = {}
  /\ \A n \in Successes :
       /\ find_song(db, SongIdOf(events[n].file)) # None
       /\ find_release(db, ReleaseIdOf(events[n].file)) # None

\* The first file's save_release failed, the file after it was imported.
C28_Witness ==
  /\ pc = "returned"
  /\ Len(events) = 4
  /\ events[2].kind = "error" /\ events[2].msg = "Repo release error"
  /\ events[3].kind = "success"
  /\ Len(db.songs) = 2 /\ Len(db.releases) = 1

\* C30: a ScannerConfig::load that starts after a save of the [scanner]
\* section has returned Ok returns the saved values, also when the save
\* overlapped the load of a scan.
C30_SaveNotLost ==
  (conf.call["later"].at # "idle" /\ IsSome(conf.saved)) =>
    conf.call["later"].cfg = Unwrap(conf.saved)

====
